---- MODULE Spec2Model ----
(***************************************************************************)
(* Model of the PAUSA report assistant.                                    *)
(*                                                                         *)
(*   - src/index.html: the section workflow (claim form, review panel,     *)
(*     regeneration dialog, loading overlay, final report).                *)
(*   - src/netlify/functions/generate-report.js and its variants: the      *)
(*     serverless handler (weather enrichment, prompt assembly, the call   *)
(*     to the text-generation service).                                    *)
(*                                                                         *)
(* A JavaScript string is a sequence of tokens, each token a TLA+ string   *)
(* that the program never looks inside except for whitespace (trim) and    *)
(* letter case (toLowerCase).  '' is << >> and a + b is a \o b.            *)
(* A value whose type is not fixed by the code (a field of a request       *)
(* body) is a tagged record, see Str, Arr, Num, Obj, Undefined, Null.      *)
(***************************************************************************)
EXTENDS Integers, Sequences, FiniteSets, TLC

VARIABLES
    currentSectionIndex,  \* index.html:272
    generatedSections,    \* index.html:273, a map from section id to text
    formContext,          \* index.html:274
    dom,                  \* the elements of the page the script reads or writes
    lastAlert,            \* the alert() the last step of the page raised, << >> if none
    calls,                \* the fetches in flight, each with its handler invocation
    now,                  \* the value of "new Date()" on the server
    history               \* what has happened so far (requests, successes, accepts)

vars == <<currentSectionIndex, generatedSections, formContext, dom, lastAlert,
          calls, now, history>>

----------------------------------------------------------------------------
(* Bounds of the model. *)

\* the longest text the generation service returns, in tokens
MaxTextLen == 1

----------------------------------------------------------------------------
(* Strings. *)

Whitespace == {" ", "\n", "\t"}

RECURSIVE TrimStart(_)
TrimStart(s) ==
    IF s # << >> /\ Head(s) \in Whitespace THEN TrimStart(Tail(s)) ELSE s

RECURSIVE TrimEnd(_)
TrimEnd(s) ==
    IF s # << >> /\ s[Len(s)] \in Whitespace
    THEN TrimEnd(SubSeq(s, 1, Len(s) - 1))
    ELSE s

\* String.prototype.trim
Trim(s) == TrimEnd(TrimStart(s))

\* the tokens with upper-case letters that the model's inputs use
LowerOfToken(tok) ==
    CASE tok = "Introduction" -> "introduction"
      [] tok = "INTRODUCTION" -> "introduction"
      [] tok = "openingLetter" -> "openingletter"
      [] tok = "tableOfContents" -> "tableofcontents"
      [] tok = "Meteorologist" -> "meteorologist"
      [] tok = "Hail" -> "hail"
      [] tok = "Thunder" -> "thunder"
      [] OTHER -> tok

\* String.prototype.toLowerCase
ToLowerCase(s) == [i \in 1..Len(s) |-> LowerOfToken(s[i])]

\* the strings of at most n tokens over the alphabet A
RECURSIVE StringsUpTo(_, _)
StringsUpTo(A, n) ==
    IF n = 0 THEN {<< >>}
    ELSE LET shorter == StringsUpTo(A, n - 1)
         IN  shorter \cup {Append(s, a) : s \in shorter, a \in A}

\* Array.prototype.join for an array of strings
RECURSIVE Join(_, _)
Join(arr, sep) ==
    IF arr = << >> THEN << >>
    ELSE IF Len(arr) = 1 THEN arr[1]
    ELSE arr[1] \o sep \o Join(Tail(arr), sep)

----------------------------------------------------------------------------
(* Values of no fixed type: the fields of a parsed request body. *)

Undefined == [t |-> "undefined"]
Null      == [t |-> "null"]
Str(s)    == [t |-> "string", s |-> s]
Num(n)    == [t |-> "number", n |-> n]
Arr(a)    == [t |-> "array", a |-> a]
Obj(o)    == [t |-> "object", o |-> o]

\* ToBoolean
Truthy(v) ==
    CASE v.t = "undefined" -> FALSE
      [] v.t = "null" -> FALSE
      [] v.t = "string" -> v.s # << >>
      [] v.t = "number" -> v.n # 0
      [] OTHER -> TRUE

\* v?.field
Get(v, field) ==
    IF v.t = "object" /\ field \in DOMAIN v.o THEN v.o[field] ELSE Undefined

\* an object literal with the given fields
EmptyObject == Obj([f \in {} |-> Undefined])

----------------------------------------------------------------------------
(* The page: src/index.html. *)

reportSections == <<
    [id |-> <<"authorization">>, title |-> <<"Authorization and Scope of Investigation">>],
    [id |-> <<"background">>,    title |-> <<"Background Information">>],
    [id |-> <<"observations">>,  title |-> <<"Site Observations and Analysis">>],
    [id |-> <<"moisture">>,      title |-> <<"Roof Moisture Survey">>],
    [id |-> <<"meteorologist">>, title |-> <<"Meteorologist Report">>],
    [id |-> <<"conclusions">>,   title |-> <<"Conclusions and Recommendations">>],
    [id |-> <<"rebuttal">>,      title |-> <<"Rebuttal">>],
    [id |-> <<"limitations">>,   title |-> <<"Limitations">> ] >>

\* reportSections.length
NumSections == Len(reportSections)

\* reportSections[i], i counted from 0 as in the script
SectionAt(i) == reportSections[i + 1]

SectionIds == {reportSections[k].id : k \in 1..NumSections}

\* reportSections.find(s => s.id === sectionId).title
TitleOf(sectionId) ==
    LET k == CHOOSE k \in 1..NumSections : reportSections[k].id = sectionId
    IN  reportSections[k].title

\* the position of a section id in the catalog, counted from 0
IndexOf(sectionId) ==
    (CHOOSE k \in 1..NumSections : reportSections[k].id = sectionId) - 1

\* marked.parse: the rendering of a markdown text, an injective function
\* of the text (the rendering itself is the library's)
marked_parse(md) == <<"<rendered>">> \o md

DefaultLoadingText == <<"Generating report section...">>

\* the elements as the markup declares them
InitialDom == [
    claimFormParentHidden    |-> FALSE,
    sectionProgressHidden    |-> TRUE,
    sectionReviewHidden      |-> TRUE,
    regenerationDialogHidden |-> TRUE,
    regenerationInstructions |-> << >>,
    loadingIndicatorHidden   |-> TRUE,
    loadingText              |-> DefaultLoadingText,
    currentSectionTitle      |-> << >>,
    currentSectionContent    |-> << >>,
    completeReport           |-> << >>,
    reportPreviewHidden      |-> TRUE ]

toggleLoading(d, show, message) ==
    [d EXCEPT !.loadingText = message, !.loadingIndicatorHidden = ~show]

\* toggleRegenerationDialog that never hides the dialog
toggleRegenerationDialog_StaysOpen(d, show) ==
    [d EXCEPT !.regenerationDialogHidden = FALSE,
              !.regenerationInstructions = IF show THEN << >> ELSE @]

toggleRegenerationDialog(d, show) ==
    [d EXCEPT !.regenerationDialogHidden = ~show,
              !.regenerationInstructions = IF show THEN << >> ELSE @]

updateSectionPreview(d, sectionId, content) ==
    [d EXCEPT !.currentSectionTitle = TitleOf(sectionId),
              !.currentSectionContent = marked_parse(content),
              !.sectionReviewHidden = FALSE]

\* the markdown text compileFinalReport builds from the stored sections
RECURSIVE reportContent(_, _)
reportContent(gs, k) ==
    IF k > NumSections THEN << >>
    ELSE LET section == reportSections[k]
             present == section.id \in DOMAIN gs /\ gs[section.id] # << >>
         IN  (IF present
              THEN <<"# ">> \o section.title \o <<"\n\n">> \o gs[section.id] \o <<"\n\n">>
              ELSE << >>)
             \o reportContent(gs, k + 1)

compileFinalReport_KeepsReview(d, gs) ==
    [d EXCEPT !.completeReport = marked_parse(reportContent(gs, 1)),
              !.reportPreviewHidden = FALSE]

compileFinalReport(d, gs) ==
    [d EXCEPT !.completeReport = marked_parse(reportContent(gs, 1)),
              !.sectionReviewHidden = TRUE,
              !.reportPreviewHidden = FALSE]

\* generateSection up to its await: the loading overlay is shown
generateSectionBegin_NoOverlay(d, sectionId) == d

generateSectionBegin(d, sectionId) ==
    toggleLoading(d, TRUE, <<"Generating ">> \o TitleOf(sectionId) \o <<"...">>)

\* generateSection's finally: the loading overlay is hidden
generateSectionFinally(d) == toggleLoading(d, FALSE, DefaultLoadingText)

\* generatedSections[id] += content: the new text is added to the stored one
StoreSection_Appends(gs, id, content) ==
    [k \in DOMAIN gs \cup {id} |->
        IF k # id THEN gs[k] ELSE IF id \in DOMAIN gs THEN gs[id] \o content ELSE content]

\* generatedSections[id] = content on a map that holds every section id
StoreSection_EverySection(gs, id, content) ==
    [k \in SectionIds |-> IF k = id THEN content
                          ELSE IF k \in DOMAIN gs THEN gs[k] ELSE << >>]

\* generatedSections[id] = content
StoreSection(gs, id, content) ==
    [k \in DOMAIN gs \cup {id} |-> IF k = id THEN content ELSE gs[k]]

\* currentSectionIndex++ and currentSectionIndex--
NextIndex_SkipsOne(i) == i + 2

NextIndex(i) == i + 1

RevertIndex_Missing(i) == i

RevertIndex(i) == i - 1

(* What the operator can reach with the pointer.  The loading overlay and  *)
(* the regeneration dialog are fixed, full-viewport, z-50 layers; the      *)
(* overlay comes last in the document and so lies above the dialog, which  *)
(* lies above the review panel that contains it.  An element under a       *)
(* hidden ancestor (display: none) cannot be reached at all.               *)
OverlayShown == ~dom.loadingIndicatorHidden

DialogShown == ~dom.sectionReviewHidden /\ ~dom.regenerationDialogHidden

CanSubmit == ~dom.claimFormParentHidden /\ ~OverlayShown

CanClickRegenerate == ~dom.sectionReviewHidden /\ ~DialogShown /\ ~OverlayShown

CanClickAccept == ~dom.sectionReviewHidden /\ ~DialogShown /\ ~OverlayShown

CanUseDialog == DialogShown /\ ~OverlayShown

CanClickDownload == ~dom.reportPreviewHidden /\ ~OverlayShown

----------------------------------------------------------------------------
(* Dates.  An instant is a number; ten instants make a calendar day (UTC). *)

\* Date.parse of the date strings the model uses; other strings are invalid
DateStrings == {"2024-05-01", "2024-05-01T23:00:00-05:00", "2024-05-02",
                "2024-05-02T18:00:00Z", "2099-01-01"}

InstantOf(tok) ==
    CASE tok = "2024-05-01" -> 10
      [] tok = "2024-05-01T23:00:00-05:00" -> 24
      [] tok = "2024-05-02" -> 20
      [] tok = "2024-05-02T18:00:00Z" -> 28
      [] tok = "2099-01-01" -> 90

\* the values "new Date()" takes in the model: a day in 2024, a day after 2099
Clock == {25, 95}

\* the clock while the page is used: the day in 2024
PageClock == {t \in Clock : t < InstantOf("2099-01-01")}

InvalidDate == [t |-> "date", valid |-> FALSE, time |-> 0]

\* new Date(value)
NewDate(v) ==
    CASE v.t = "string" /\ Len(v.s) = 1 /\ v.s[1] \in DateStrings ->
            [t |-> "date", valid |-> TRUE, time |-> InstantOf(v.s[1])]
      [] v.t = "number" -> [t |-> "date", valid |-> TRUE, time |-> v.n]
      [] v.t = "null" -> [t |-> "date", valid |-> TRUE, time |-> 0]
      [] OTHER -> InvalidDate

\* date.toISOString().split('T')[0]
IsoDate(d) ==
    LET day == d.time \div 10
    IN  CASE day = 1 -> "2024-05-01"
          [] day = 2 -> "2024-05-02"
          [] day = 9 -> "2099-01-01"
          [] OTHER -> "1970-01-01"

safeParseDate(dateString) ==
    IF ~Truthy(dateString) THEN Null
    ELSE LET d == NewDate(dateString)
         IN  IF ~d.valid THEN Null ELSE d

----------------------------------------------------------------------------
(* The weather service (api.weatherapi.com), as far as the code reads it. *)

NetworkError == [t |-> "error", message |-> <<"Network Error">>]

HourLists == { << >>,
               << [time |-> <<"00:00">>, gust_mph |-> 1] >>,
               << [time |-> <<"00:00">>, gust_mph |-> 2],
                  [time |-> <<"01:00">>, gust_mph |-> 2] >>,
               << [time |-> <<"00:00">>, gust_mph |-> 1],
                  [time |-> <<"01:00">>, gust_mph |-> 2] >>,
               << [time |-> <<"00:00">>, gust_mph |-> 1],
                  [time |-> <<"01:00">>, gust_mph |-> 3],
                  [time |-> <<"02:00">>, gust_mph |-> 0],
                  [time |-> <<"03:00">>, gust_mph |-> 3] >> }

Conditions == { <<"Sunny">>, <<"Patchy ", "Hail">>, <<"Thunder", "y outbreaks">> }

\* the responses the service may give
WeatherResponses ==
    {NetworkError}
    \cup {[t |-> "response", shape |-> sh, hour |-> << >>, condition |-> << >>] :
            sh \in {"no_forecast", "no_days"}}
    \cup {[t |-> "response", shape |-> "full", hour |-> h, condition |-> c] :
            h \in HourLists, c \in Conditions}

\* Math.max(...hourlyData.map(hour => hour.gust_mph)); -1 stands for -Infinity
RECURSIVE MaxGustOf(_)
MaxGustOf(hours) ==
    IF hours = << >> THEN -1
    ELSE LET rest == MaxGustOf(Tail(hours))
         IN  IF Head(hours).gust_mph >= rest THEN Head(hours).gust_mph ELSE rest

\* the time of the last sample with the gust, instead of the first
FindGustTime_Last(hours, gust, fallback) ==
    LET at == {k \in 1..Len(hours) : hours[k].gust_mph = gust}
    IN  IF at = {} THEN fallback
        ELSE hours[CHOOSE k \in at : \A j \in at : j <= k].time

\* hourlyData.find(hour => hour.gust_mph === maxWindGust)?.time || fallback
RECURSIVE FindGustTime(_, _, _)
FindGustTime(hours, gust, fallback) ==
    IF hours = << >> THEN fallback
    ELSE IF Head(hours).gust_mph = gust
         THEN (IF Head(hours).time = << >> THEN fallback ELSE Head(hours).time)
         ELSE FindGustTime(Tail(hours), gust, fallback)

NumberString(n) == IF n = -1 THEN "-Infinity" ELSE ToString(n)

\* conditions.toLowerCase().includes(word), word one of the model's tokens
Includes(text, word) == \E i \in 1..Len(text) : LowerOfToken(text[i]) = word

\* the summary built from a well-formed response
WeatherSummary(resp, timeFallback) ==
    LET gust == MaxGustOf(resp.hour)
    IN  Obj([ maxTemp      |-> Str(<<"80", "°F">>),
              minTemp      |-> Str(<<"60", "°F">>),
              avgTemp      |-> Str(<<"70", "°F">>),
              maxWindGust  |-> Str(<<NumberString(gust), " mph">>),
              maxWindTime  |-> Str(FindGustTime(resp.hour, gust, timeFallback)),
              totalPrecip  |-> Str(<<"0.1", " inches">>),
              humidity     |-> Str(<<"50", "%">>),
              conditions   |-> Str(resp.condition),
              hailPossible |-> Str(IF Includes(resp.condition, "hail")
                                   THEN <<"Yes">> ELSE <<"No">>),
              thunderstorm |-> Str(IF Includes(resp.condition, "thunder")
                                   THEN <<"Yes">> ELSE <<"No">>) ])

WeatherOk(data) == [success |-> TRUE, data |-> data, error |-> << >>]

WeatherFailed(message) == [success |-> FALSE, data |-> Undefined, error |-> message]

\* what getWeatherData returns once axios.get has settled
WeatherResultOf(resp, timeFallback) ==
    CASE resp.t = "error" -> WeatherFailed(resp.message)
      [] resp.shape = "no_forecast" ->
            WeatherFailed(<<"Cannot read properties of undefined (reading 'forecastday')">>)
      [] resp.shape = "no_days" ->
            WeatherFailed(<<"Cannot read properties of undefined (reading 'day')">>)
      [] OTHER -> WeatherOk(WeatherSummary(resp, timeFallback))

----------------------------------------------------------------------------
(* The handler: src/netlify/functions/generate-report.js and its variants. *)

(* The repository holds four bodies of generate-report.js:                 *)
(*   "A"  generate-report.js lines 1-341,                                  *)
(*   "B"  generate-report.js lines 343-616 (a second exports.handler,      *)
(*        getWeatherData and generateSection in the same file),            *)
(*   "P0" unnamed/part_000,  "P1" unnamed/part_001.                        *)
(* Which one answers /.netlify/functions/generate-report is not fixed by   *)
(* the sources, so it is chosen when an invocation starts.                 *)
Versions == {"A", "B", "P0", "P1"}

CorsHeaders == [ AccessControlAllowOrigin  |-> <<"*">>,
                 AccessControlAllowHeaders |-> <<"Content-Type">>,
                 AccessControlAllowMethods |-> <<"POST, OPTIONS">> ]

\* the sections for which the handler skips the weather lookup
WeatherSkipList == { <<"tableofcontents">>, <<"openingletter">>, <<"introduction">> }

\* a request body that is not JSON
Unparsable == [t |-> "unparsable"]

\* JSON.stringify of an object literal: fields that are undefined are dropped
JsonObject(fields) ==
    Obj([f \in {g \in DOMAIN fields : fields[g] # Undefined} |-> fields[f]])

Response(code, body) == [statusCode |-> code, headers |-> CorsHeaders, body |-> body]

ErrorResponse(details) ==
    Response(500, JsonObject([error   |-> Str(<<"Failed to generate report section">>),
                             details |-> Str(details)]))

NoResponse == [statusCode |-> 0, headers |-> CorsHeaders, body |-> Undefined]

NoWeather == WeatherOk(EmptyObject)

NoPrompt == [sectionName |-> Undefined, context |-> Undefined,
             weatherData |-> Undefined, customInstructions |-> Undefined]

\* a fetch in flight: the caller's locals, the event, the invocation's progress
NewCall(kind, sectionId, event, at) ==
    [ kind            |-> kind,
      sectionId       |-> sectionId,
      event           |-> event,
      now             |-> at,
      version         |-> "none",
      pc              |-> "sent",
      weatherResult   |-> NoWeather,
      weatherRequest  |-> Undefined,
      weatherCalls    |-> 0,
      completionCalls |-> 0,
      prompt          |-> NoPrompt,
      response        |-> NoResponse ]

Respond(c, response) == [c EXCEPT !.pc = "responded", !.response = response]

\* the note getWeatherData returns for a date after today
FutureDateNote(version, iso) ==
    IF version = "P1"
    THEN <<"Weather data not found for future date: ", iso>>
    ELSE <<"Weather data not found for a future date: ", iso>>

\* getWeatherData of A, P0, P1, up to axios.get: the result if it returns
\* without a lookup, or the lookup it sends
getWeatherData(version, location, dateString, today) ==
    IF ~Truthy(location) \/ ~Truthy(dateString)
    THEN [lookup |-> FALSE, result |-> NoWeather, request |-> Undefined]
    ELSE LET dateObj == safeParseDate(dateString)
         IN  IF dateObj = Null
             THEN [lookup |-> FALSE, result |-> NoWeather, request |-> Undefined]
             ELSE IF dateObj.time > today
             THEN [lookup |-> FALSE,
                   result |-> WeatherOk(Obj([note |->
                                 Str(FutureDateNote(version, IsoDate(dateObj)))])),
                   request |-> Undefined]
             ELSE [lookup |-> TRUE, result |-> NoWeather,
                   request |-> Obj([q |-> location, dt |-> Str(<<IsoDate(dateObj)>>)])]

\* getWeatherData of B, up to axios.get: it always sends the lookup
getWeatherData2(location, date) ==
    [lookup |-> TRUE, result |-> NoWeather,
     request |-> JsonObject([q |-> location, dt |-> date])]

\* whether building the prompt throws
\* A, P0, P1: (sectionName || '').trim when sectionName is truthy and no string
\* P1: context.roofType.join when roofType has a length and is no array
\* B:  context.<field> when context is undefined or null,
\*     context.affectedAreas.join, sectionName.toLowerCase
PromptThrows(version, sectionName, context) ==
    CASE version = "B" ->
            \/ Get(context, "affectedAreas").t # "array"
            \/ sectionName.t # "string"
      [] version = "P1" ->
            \/ Get(context, "roofType").t = "string" /\ Get(context, "roofType").s # << >>
            \/ Truthy(sectionName) /\ sectionName.t # "string"
      [] OTHER -> Truthy(sectionName) /\ sectionName.t # "string"

\* the message of the TypeError thrown
PromptError(version, sectionName, context) ==
    CASE version = "B" /\ context.t \in {"undefined", "null"} ->
            <<"Cannot read properties of undefined">>
      [] version = "B" /\ Get(context, "affectedAreas").t \in {"undefined", "null"} ->
            <<"Cannot read properties of undefined (reading 'join')">>
      [] version = "B" /\ Get(context, "affectedAreas").t # "array" ->
            <<"context.affectedAreas.join is not a function">>
      [] version = "B" /\ sectionName.t \in {"undefined", "null"} ->
            <<"Cannot read properties of undefined (reading 'toLowerCase')">>
      [] version = "B" -> <<"sectionName.toLowerCase is not a function">>
      [] version = "P1" /\ Get(context, "roofType").t = "string" ->
            <<"context.roofType.join is not a function">>
      [] OTHER -> <<"(sectionName || \"\").trim is not a function">>

\* the handler from the prompt on, up to openai.chat.completions.create
BuildPromptAndAsk(version, c, sectionName, context, weatherResult, customInstructions) ==
    IF PromptThrows(version, sectionName, context)
    THEN Respond([c EXCEPT !.weatherResult = weatherResult],
                 ErrorResponse(PromptError(version, sectionName, context)))
    ELSE [c EXCEPT !.weatherResult = weatherResult,
                   !.prompt = [sectionName |-> sectionName, context |-> context,
                               weatherData |-> weatherResult.data,
                               customInstructions |-> customInstructions],
                   !.completionCalls = @ + 1,
                   !.pc = "completion"]

\* (section || '').trim().toLowerCase() with the trim left out
NormalizeSection_NoTrim(section) ==
    ToLowerCase(IF Truthy(section) THEN section.s ELSE << >>)

\* (section || '').trim().toLowerCase(), section falsy or a string
NormalizeSection(section) ==
    ToLowerCase(Trim(IF Truthy(section) THEN section.s ELSE << >>))

\* whether the handler of A, P0, P1 attempts the weather call for a section
NeedsWeather_SkipsNothing(lowerSection) == TRUE

NeedsWeather(lowerSection) == lowerSection \notin WeatherSkipList

\* exports.handler of A, P0, P1 parsing the body before it looks at the method
handlerBegin_ParsesFirst(version, c) ==
    IF c.event.body = Unparsable
    THEN Respond(c, ErrorResponse(<<"Unexpected token in JSON">>))
    ELSE Respond(c, Response(200, Str(<< >>)))

\* exports.handler of A, P0, P1 up to its first await
handlerBegin(version, c) ==
    LET event == c.event IN
    IF event.httpMethod = "OPTIONS" THEN Respond(c, Response(200, Str(<< >>)))
    ELSE IF event.body = Unparsable
    THEN Respond(c, ErrorResponse(<<"Unexpected token in JSON">>))
    ELSE
    LET parsed  == IF Truthy(event.body) THEN event.body ELSE EmptyObject
        section == Get(parsed, "section")
        userContext == Get(parsed, "context")
        customInstructions == Get(parsed, "customInstructions")
    IN  IF Truthy(section) /\ section.t # "string"
        THEN Respond(c, ErrorResponse(<<"(section || \"\").trim is not a function">>))
        ELSE
        LET lowerSection == NormalizeSection(section)
            dateObj == safeParseDate(Get(userContext, "dateOfLoss"))
            address == Get(userContext, "address")
        IN  IF NeedsWeather(lowerSection) /\ dateObj # Null /\ Truthy(address)
            THEN LET w == getWeatherData(version, address,
                                         Str(<<IsoDate(dateObj)>>), c.now)
                 IN  IF w.lookup
                     THEN [c EXCEPT !.pc = "weather",
                                    !.weatherRequest = w.request,
                                    !.weatherCalls = @ + 1]
                     ELSE BuildPromptAndAsk(version, c, section, userContext,
                                            w.result, customInstructions)
            ELSE BuildPromptAndAsk(version, c, section, userContext,
                                   NoWeather, customInstructions)

\* exports.handler of B up to its first await
handler2Begin(c) ==
    LET event == c.event IN
    IF event.httpMethod = "OPTIONS" THEN Respond(c, Response(200, Str(<< >>)))
    ELSE IF event.body = Unparsable
    THEN Respond(c, ErrorResponse(<<"Unexpected token in JSON">>))
    ELSE IF event.body.t \in {"null", "undefined"}
    THEN Respond(c, ErrorResponse(<<"Cannot destructure property 'section'">>))
    ELSE
    LET section == Get(event.body, "section")
        context == Get(event.body, "context")
    IN  IF context.t \in {"null", "undefined"}
        THEN Respond(c, ErrorResponse(<<"Cannot read properties of undefined">>))
        ELSE
        LET d == NewDate(Get(context, "dateOfLoss"))
        IN  IF ~d.valid
            THEN Respond(c, ErrorResponse(<<"Invalid time value">>))
            ELSE LET w == getWeatherData2(Get(context, "location"),
                                          Str(<<IsoDate(d)>>))
                 IN  [c EXCEPT !.pc = "weather",
                               !.weatherRequest = w.request,
                               !.weatherCalls = @ + 1]

\* the handler once axios.get has settled, trying a failed lookup once more
handlerAfterWeather_RetriesLookup(version, c, resp) ==
    IF ~WeatherResultOf(resp, << >>).success /\ c.weatherCalls < 2
    THEN [c EXCEPT !.weatherCalls = @ + 1]
    ELSE BuildPromptAndAsk(version, c, Get(c.event.body, "section"),
                           Get(c.event.body, "context"), WeatherResultOf(resp, << >>),
                           Get(c.event.body, "customInstructions"))

\* the handler once axios.get has settled, a failed lookup failing the request
handlerAfterWeather_LookupFailureFatal(version, c, resp) ==
    LET result == WeatherResultOf(resp, << >>)
    IN  IF result.success
        THEN BuildPromptAndAsk(version, c, Get(c.event.body, "section"),
                               Get(c.event.body, "context"), result,
                               Get(c.event.body, "customInstructions"))
        ELSE Respond([c EXCEPT !.weatherResult = result], ErrorResponse(result.error))

\* the handler once axios.get has settled
handlerAfterWeather(version, c, resp) ==
    LET parsed == IF Truthy(c.event.body) THEN c.event.body ELSE EmptyObject
        result == WeatherResultOf(resp, IF version = "B" THEN <<"N/A">> ELSE << >>)
    IN  BuildPromptAndAsk(version, c, Get(parsed, "section"), Get(parsed, "context"),
                          result,
                          IF version = "B" THEN Undefined
                          ELSE Get(parsed, "customInstructions"))

\* the generation service's answers: an error, or a text
Texts == StringsUpTo({"x"}, MaxTextLen)

CompletionError == [t |-> "error", text |-> << >>]

Completions == {CompletionError} \cup {[t |-> "content", text |-> s] : s \in Texts}

\* the handler once openai.chat.completions.create has settled
handlerAfterCompletion(version, c, completion) ==
    LET parsed == IF Truthy(c.event.body) THEN c.event.body ELSE EmptyObject
    IN  IF completion.t = "error"
        THEN Respond(c, ErrorResponse(<<"OpenAI request failed">>))
        ELSE Respond(c, Response(200,
                 JsonObject([ section     |-> Str(completion.text),
                              sectionName |-> Get(parsed, "section"),
                              weatherData |-> c.weatherResult.data ])))

----------------------------------------------------------------------------
(* The operator's entries in the claim form (its required fields filled).  *)

FormEntries == {
    [dateOfLoss |-> <<"2024-05-01">>, causationDate |-> << >>,
     affectedAreas |-> << <<"Roof">> >>],
    [dateOfLoss |-> <<"2099-01-01">>, causationDate |-> <<"2024-05-02">>,
     affectedAreas |-> << >>] }

\* the formContext object the submit handler builds
FormContext(entry) ==
    Obj([ investigationDate |-> Str(<<"2024-05-02">>),
          clientName        |-> Str(<<"Acme Insurance">>),
          propertyType      |-> Str(<<"Commercial">>),
          propertyAge       |-> Str(<<"20">>),
          constructionType  |-> Str(<<"Steel frame">>),
          currentUse        |-> Str(<<"Office">>),
          squareFootage     |-> Str(<<"5000">>),
          claimType         |-> Str(<<"Hail">>),
          dateOfLoss        |-> Str(entry.dateOfLoss),
          causationDate     |-> Str(IF entry.causationDate # << >>
                                    THEN entry.causationDate ELSE entry.dateOfLoss),
          location          |-> Str(<<"123 Main St">>),
          affectedAreas     |-> Arr([k \in 1..Len(entry.affectedAreas) |->
                                       Str(entry.affectedAreas[k])]),
          engineerNotes     |-> Str(<<"Punctures in the membrane">>) ])

\* what the operator may type into the regeneration dialog
TypedInstructions == { << >>, <<" ">>, <<" ", "Shorter", " ">> }

\* the request generateSection sends
FetchEvent(sectionId, context, customInstructions) ==
    [httpMethod |-> "POST",
     body |-> JsonObject([ section            |-> Str(sectionId),
                           context            |-> context,
                           customInstructions |-> Str(customInstructions) ])]

NoAlert == << >>

FailedInitial == <<"Failed to generate initial section. Please try again.">>

FailedRegenerate == <<"Failed to regenerate section. Please try again.">>

FailedNext == <<"Failed to generate next section. Please try again.">>

NoHistory == [requested |-> << >>, generated |-> {}, accepted |-> {}]

\* a section's first request is recorded in the order of sending
Requested(h, sectionId) ==
    IF \E k \in 1..Len(h.requested) : h.requested[k] = sectionId
    THEN h
    ELSE [h EXCEPT !.requested = Append(@, sectionId)]

Remove(seq, i) == [k \in 1..(Len(seq) - 1) |-> IF k < i THEN seq[k] ELSE seq[k + 1]]

Init ==
    /\ currentSectionIndex = 0
    /\ generatedSections = [id \in {} |-> << >>]
    /\ formContext = EmptyObject
    /\ dom = InitialDom
    /\ lastAlert = NoAlert
    /\ calls = << >>
    /\ now \in PageClock
    /\ history = NoHistory

\* claimForm submit handler, up to the await in generateSection
Submit(entry) ==
    /\ CanSubmit
    /\ LET sectionId == SectionAt(0).id
           context == FormContext(entry)
           shown == [dom EXCEPT !.claimFormParentHidden = TRUE,
                                !.sectionProgressHidden = FALSE]
       IN  /\ formContext' = context
           /\ dom' = generateSectionBegin(shown, sectionId)
           /\ calls' = Append(calls, NewCall("start", sectionId,
                                  FetchEvent(sectionId, context, << >>), now))
           /\ history' = Requested(history, sectionId)
    /\ lastAlert' = NoAlert
    /\ UNCHANGED <<currentSectionIndex, generatedSections, now>>

\* regenerateSection click handler
OpenRegenerationDialog ==
    /\ CanClickRegenerate
    /\ dom' = toggleRegenerationDialog(dom, TRUE)
    /\ lastAlert' = NoAlert
    /\ UNCHANGED <<currentSectionIndex, generatedSections, formContext,
                   calls, now, history>>

\* the operator types into the regenerationInstructions textarea
TypeInstructions(text) ==
    /\ CanUseDialog
    /\ dom' = [dom EXCEPT !.regenerationInstructions = text]
    /\ lastAlert' = NoAlert
    /\ UNCHANGED <<currentSectionIndex, generatedSections, formContext,
                   calls, now, history>>

\* cancelRegeneration click handler
CancelRegeneration ==
    /\ CanUseDialog
    /\ dom' = toggleRegenerationDialog(dom, FALSE)
    /\ lastAlert' = NoAlert
    /\ UNCHANGED <<currentSectionIndex, generatedSections, formContext,
                   calls, now, history>>

\* keydown handler: Escape closes the dialog (the keyboard is not covered)
EscapeKey ==
    /\ dom' = toggleRegenerationDialog(dom, FALSE)
    /\ lastAlert' = NoAlert
    /\ UNCHANGED <<currentSectionIndex, generatedSections, formContext,
                   calls, now, history>>

\* confirmRegeneration click handler, up to the await in generateSection;
\* reportSections[currentSectionIndex].id throws past the end of the catalog
ConfirmRegeneration ==
    /\ CanUseDialog
    /\ LET instructions == Trim(dom.regenerationInstructions)
           closed == toggleRegenerationDialog(dom, FALSE)
       IN  IF currentSectionIndex < NumSections
           THEN LET sectionId == SectionAt(currentSectionIndex).id
                IN  /\ dom' = generateSectionBegin(closed, sectionId)
                    /\ calls' = Append(calls, NewCall("regen", sectionId,
                                   FetchEvent(sectionId, formContext, instructions), now))
                    /\ history' = Requested(history, sectionId)
                    /\ lastAlert' = NoAlert
           ELSE /\ dom' = closed
                /\ lastAlert' = FailedRegenerate
                /\ UNCHANGED <<calls, history>>
    /\ UNCHANGED <<currentSectionIndex, generatedSections, formContext, now>>

\* acceptSection click handler, up to the await in generateSection
\* or, past the last section, to its return
AcceptSection ==
    /\ CanClickAccept
    /\ LET index == NextIndex(currentSectionIndex)
           accepted == IF currentSectionIndex < NumSections
                       THEN {SectionAt(currentSectionIndex).id} ELSE {}
           h == [history EXCEPT !.accepted = @ \cup accepted]
       IN  /\ currentSectionIndex' = index
           /\ IF index >= NumSections
              THEN /\ dom' = compileFinalReport(dom, generatedSections)
                   /\ history' = h
                   /\ UNCHANGED calls
              ELSE LET sectionId == SectionAt(index).id
                   IN  /\ dom' = generateSectionBegin(dom, sectionId)
                       /\ calls' = Append(calls, NewCall("accept", sectionId,
                                      FetchEvent(sectionId, formContext, << >>), now))
                       /\ history' = Requested(h, sectionId)
    /\ lastAlert' = NoAlert
    /\ UNCHANGED <<generatedSections, formContext, now>>

\* downloadReport click handler: it saves the shown report and changes nothing
DownloadReport ==
    /\ CanClickDownload
    /\ lastAlert' = NoAlert
    /\ UNCHANGED <<currentSectionIndex, generatedSections, formContext, dom,
                   calls, now, history>>

\* the alert each handler raises in its catch
FailureAlert(kind) ==
    CASE kind = "start" -> FailedInitial
      [] kind = "regen" -> FailedRegenerate
      [] OTHER -> FailedNext

\* the fetch resolves with an ok response: generateSection returns data.section,
\* the handler stores it and shows it
FetchSucceeds(i) ==
    /\ i \in 1..Len(calls)
    /\ calls[i].kind # "direct"
    /\ calls[i].pc = "responded"
    /\ calls[i].response.statusCode = 200
    /\ LET c == calls[i]
           content == Get(c.response.body, "section").s
       IN  /\ generatedSections' = StoreSection(generatedSections, c.sectionId, content)
           /\ dom' = updateSectionPreview(generateSectionFinally(dom), c.sectionId, content)
           /\ history' = [history EXCEPT !.generated = @ \cup {c.sectionId}]
    /\ calls' = Remove(calls, i)
    /\ lastAlert' = NoAlert
    /\ UNCHANGED <<currentSectionIndex, formContext, now>>

\* the fetch rejects, or resolves with a response that is not ok:
\* generateSection rethrows, the handler alerts (and acceptSection steps back)
FetchFails(i) ==
    /\ i \in 1..Len(calls)
    /\ calls[i].kind # "direct"
    /\ calls[i].pc = "responded" => calls[i].response.statusCode # 200
    /\ dom' = generateSectionFinally(dom)
    /\ lastAlert' = FailureAlert(calls[i].kind)
    /\ currentSectionIndex' = IF calls[i].kind = "accept"
                              THEN RevertIndex(currentSectionIndex)
                              ELSE currentSectionIndex
    /\ calls' = Remove(calls, i)
    /\ UNCHANGED <<generatedSections, formContext, now, history>>

\* exports.handler is invoked and runs up to its first await
HandlerBegin(i, version) ==
    /\ i \in 1..Len(calls)
    /\ calls[i].pc = "sent"
    /\ LET c == [calls[i] EXCEPT !.version = version]
       IN  calls' = [calls EXCEPT ![i] = IF version = "B" THEN handler2Begin(c)
                                         ELSE handlerBegin(version, c)]
    /\ UNCHANGED <<currentSectionIndex, generatedSections, formContext, dom,
                   lastAlert, now, history>>

\* axios.get settles
WeatherSettles(i, resp) ==
    /\ i \in 1..Len(calls)
    /\ calls[i].pc = "weather"
    /\ calls' = [calls EXCEPT ![i] = handlerAfterWeather(@.version, @, resp)]
    /\ UNCHANGED <<currentSectionIndex, generatedSections, formContext, dom,
                   lastAlert, now, history>>

\* openai.chat.completions.create settles
CompletionSettles(i, completion) ==
    /\ i \in 1..Len(calls)
    /\ calls[i].pc = "completion"
    /\ calls' = [calls EXCEPT ![i] = handlerAfterCompletion(@.version, @, completion)]
    /\ UNCHANGED <<currentSectionIndex, generatedSections, formContext, dom,
                   lastAlert, now, history>>

\* the weather responses a request of the page is answered with
PageWeatherResponses ==
    {r \in WeatherResponses :
        r.t = "error" \/ (r.shape = "full" /\ Len(r.hour) = 1 /\ r.condition = <<"Sunny">>)}

\* the answers of the generation service a request of the page is answered
\* with: an error, the empty text, a text of the greatest length
PageCompletions ==
    {c \in Completions : c.t = "error" \/ Len(c.text) \in {0, MaxTextLen}}

Next ==
    \/ \E entry \in FormEntries : Submit(entry)
    \/ OpenRegenerationDialog
    \/ \E text \in TypedInstructions : TypeInstructions(text)
    \/ CancelRegeneration
    \/ EscapeKey
    \/ ConfirmRegeneration
    \/ AcceptSection
    \/ DownloadReport
    \/ \E i \in 1..Len(calls), version \in Versions : HandlerBegin(i, version)
    \/ \E i \in 1..Len(calls), resp \in PageWeatherResponses : WeatherSettles(i, resp)
    \/ \E i \in 1..Len(calls), completion \in PageCompletions :
          CompletionSettles(i, completion)
    \/ \E i \in 1..Len(calls) : FetchSucceeds(i)
    \/ \E i \in 1..Len(calls) : FetchFails(i)

Spec == Init /\ [][Next]_vars

----------------------------------------------------------------------------
(* The handler on its own: invoked with any event of the sets below. *)

HandlerSections == {
    Undefined, Num(5), Str(<< >>),
    Str(<<"introduction">>), Str(<<" ", "Introduction", "\n">>), Str(<<"INTRODUCTION">>),
    Str(<<"openingLetter">>), Str(<<"tableOfContents", " ">>),
    Str(<<"meteorologist">>), Str(<<"Meteorologist">>),
    Str(<<"authorization">>), Str(<<"appendix">>) }

HandlerContexts == {
    Undefined,
    Obj([address |-> Str(<<"123 Main St">>)]),
    Obj([dateOfLoss |-> Str(<<"2024-05-01">>)]),
    Obj([dateOfLoss |-> Str(<<"2024-05-01">>), address |-> Str(<<"123 Main St">>)]),
    Obj([dateOfLoss |-> Str(<<"2099-01-01">>), address |-> Str(<<"123 Main St">>)]),
    Obj([dateOfLoss |-> Str(<<"next week">>), address |-> Str(<<"123 Main St">>)]),
    Obj([dateOfLoss |-> Str(<<"2024-05-01T23:00:00-05:00">>),
         address |-> Str(<<"123 Main St">>),
         roofType |-> Str(<<"TPO">>), affectedAreas |-> Str(<<"Roof">>)]),
    Obj([dateOfLoss |-> Str(<<"2024-05-01">>), address |-> Str(<<"123 Main St">>),
         location |-> Str(<<"123 Main St">>),
         roofType |-> Arr(<<Str(<<"TPO">>)>>),
         claimType |-> Arr(<<Str(<<"Hail">>), Str(<<"Wind">>)>>),
         affectedAreas |-> Arr(<<Str(<<"Roof">>)>>)]) }
    \cup {FormContext(entry) : entry \in FormEntries}

HandlerInstructions == { Undefined, Str(<<" ">>), Str(<<"Shorter">>) }

HandlerEvents ==
    {[httpMethod |-> "OPTIONS", body |-> Unparsable]}
    \cup {[httpMethod |-> "POST", body |-> b] : b \in {Unparsable, Null}}
    \cup {[httpMethod |-> "POST",
           body |-> JsonObject([section |-> s, context |-> x, customInstructions |-> ci])] :
            s \in HandlerSections, x \in HandlerContexts, ci \in HandlerInstructions}
    \cup {[httpMethod |-> "GET",
           body |-> JsonObject([section |-> s, context |-> FormContext(entry),
                                customInstructions |-> Undefined])] :
            s \in HandlerSections, entry \in FormEntries}

InitHandler ==
    /\ currentSectionIndex = 0
    /\ generatedSections = [id \in {} |-> << >>]
    /\ formContext = EmptyObject
    /\ dom = InitialDom
    /\ lastAlert = NoAlert
    /\ calls = << >>
    /\ now \in Clock
    /\ history = NoHistory

\* the platform invokes exports.handler with an event
Invoke(event) ==
    /\ calls = << >>
    /\ calls' = <<NewCall("direct", << >>, event, now)>>
    /\ UNCHANGED <<currentSectionIndex, generatedSections, formContext, dom,
                   lastAlert, now, history>>

\* the response is handed back to the platform
Return(i) ==
    /\ i \in 1..Len(calls)
    /\ calls[i].kind = "direct"
    /\ calls[i].pc = "responded"
    /\ calls' = Remove(calls, i)
    /\ UNCHANGED <<currentSectionIndex, generatedSections, formContext, dom,
                   lastAlert, now, history>>

NextHandler ==
    \/ \E event \in HandlerEvents : Invoke(event)
    \/ \E i \in 1..Len(calls), version \in Versions : HandlerBegin(i, version)
    \/ \E i \in 1..Len(calls), resp \in WeatherResponses : WeatherSettles(i, resp)
    \/ \E i \in 1..Len(calls), completion \in Completions : CompletionSettles(i, completion)
    \/ \E i \in 1..Len(calls) : Return(i)

SpecHandler == InitHandler /\ [][NextHandler]_vars

----------------------------------------------------------------------------
(* Properties of the section workflow (specification Spec). *)

\* the workflow is Complete: the compiled report is shown
Complete == ~dom.reportPreviewHidden

C2_FailedAcceptIsUndone ==
    [][ /\ AcceptSection => generatedSections' = generatedSections
        /\ \A i \in 1..Len(calls) :
              calls[i].kind = "accept" =>
                 /\ ~FetchSucceeds(i) => generatedSections' = generatedSections
                 /\ FetchFails(i) =>
                       /\ currentSectionIndex' = IndexOf(calls[i].sectionId) - 1
                       /\ calls[i].sectionId \notin DOMAIN generatedSections'
                       /\ \A k \in 1..IndexOf(calls[i].sectionId) :
                             reportSections[k].id \in DOMAIN generatedSections'
                       /\ CanClickAccept'
      ]_vars

\* generating "background" failed after "authorization" was accepted
C2_Witness ==
    /\ lastAlert = FailedNext
    /\ currentSectionIndex = 0
    /\ DOMAIN generatedSections = {<<"authorization">>}
    /\ ENABLED AcceptSection

RECURSIVE EverySectionReport(_, _)
EverySectionReport(gs, k) ==
    IF k > NumSections THEN << >>
    ELSE <<"# ">> \o reportSections[k].title \o <<"\n\n">>
         \o (IF reportSections[k].id \in DOMAIN gs THEN gs[reportSections[k].id] ELSE << >>)
         \o <<"\n\n">>
         \o EverySectionReport(gs, k + 1)

\* C4: once every section has been accepted, the compiled document holds,
\* for each catalog section in catalog order, its title as a heading and
\* then its accepted content, whatever the text (the empty text included).
C4_CompiledDocument ==
    Complete =>
        /\ DOMAIN generatedSections = SectionIds
        /\ dom.completeReport = marked_parse(EverySectionReport(generatedSections, 1))

\* what the operator reviews, and what is stored
ReviewState ==
    <<generatedSections, currentSectionIndex, dom.currentSectionTitle,
      dom.currentSectionContent, dom.sectionReviewHidden>>

\* C5: a failed regeneration leaves the stored sections, the cursor and the
\* reviewed title and content as they were when regenerate was confirmed,
\* and regenerate can be clicked again.
C5_FailedRegenerationChangesNothing ==
    [][ /\ ConfirmRegeneration => ReviewState' = ReviewState
        /\ \A i \in 1..Len(calls) :
              calls[i].kind = "regen" =>
                 /\ ~FetchSucceeds(i) => ReviewState' = ReviewState
                 /\ FetchFails(i) =>
                       /\ lastAlert' = FailedRegenerate
                       /\ CanClickRegenerate'
      ]_vars

\* a regeneration of "background" has just failed
C5_Witness ==
    /\ lastAlert = FailedRegenerate
    /\ currentSectionIndex = 1
    /\ dom.currentSectionTitle = TitleOf(<<"background">>)
    /\ ENABLED OpenRegenerationDialog

C9_RetryAfterFailure ==
    /\ lastAlert = FailedInitial => ENABLED (\E entry \in FormEntries : Submit(entry))
    /\ lastAlert = FailedRegenerate => ENABLED OpenRegenerationDialog
    /\ lastAlert = FailedNext => ENABLED AcceptSection

----------------------------------------------------------------------------
(* Properties of the handler (specification SpecHandler). *)

\* the section id of a call's request, trimmed and lower-cased
RequestedSection(c) ==
    LET section == Get(c.event.body, "section")
    IN  IF section.t = "string" THEN ToLowerCase(Trim(section.s)) ELSE << >>

\* C10: for a request whose section id, trimmed and lower-cased, is
\* openingletter, tableofcontents or introduction, the handler makes no
\* weather lookup, and the summary given to the prompt assembler and echoed
\* in the response is the empty summary.
C10_NoWeatherForExcludedSections ==
    \A i \in 1..Len(calls) :
        LET c == calls[i] IN
        (/\ c.pc # "sent"
         /\ c.event.httpMethod # "OPTIONS"
         /\ RequestedSection(c) \in WeatherSkipList) =>
            /\ c.weatherCalls = 0
            /\ c.pc = "completion" => c.prompt.weatherData = EmptyObject
            /\ (c.pc = "responded" /\ c.response.statusCode = 200) =>
                  Get(c.response.body, "weatherData") = EmptyObject

\* the parsed request of a call, and the details of its 500 response
SectionOf(c) == Get(c.event.body, "section")

ContextOf(c) == Get(c.event.body, "context")

DetailsOf(c) == Get(c.response.body, "details")

GenerationFailed == Str(<<"OpenAI request failed">>)

\* C11: after a failed weather lookup the handler still builds the prompt
\* and calls the generation service exactly once, and it answers 200 unless
\* that call fails; the request fails before the generation call only when
\* building the prompt throws, which it does with or without weather data.
C11_FailedLookupNotFatal ==
    \A i \in 1..Len(calls) :
        LET c == calls[i] IN
        (c.weatherCalls = 1 /\ ~c.weatherResult.success) =>
            IF PromptThrows(c.version, SectionOf(c), ContextOf(c))
            THEN /\ c.pc = "responded"
                 /\ c.completionCalls = 0
                 /\ DetailsOf(c) = Str(PromptError(c.version, SectionOf(c), ContextOf(c)))
            ELSE /\ c.pc \in {"completion", "responded"}
                 /\ c.completionCalls = 1
                 /\ c.prompt.sectionName = SectionOf(c)
                 /\ c.pc = "responded" =>
                       \/ c.response.statusCode = 200
                       \/ c.response.statusCode = 500 /\ DetailsOf(c) = GenerationFailed

\* a request answered 200 although its weather lookup failed
C11_Witness ==
    \E i \in 1..Len(calls) :
        /\ calls[i].weatherCalls = 1
        /\ ~calls[i].weatherResult.success
        /\ calls[i].pc = "responded"
        /\ calls[i].response.statusCode = 200

\* the field names of a fully populated weather summary
SummaryFields ==
    {"maxTemp", "minTemp", "avgTemp", "maxWindGust", "maxWindTime", "totalPrecip",
     "humidity", "conditions", "hailPossible", "thunderstorm"}

\* a weather summary: empty, note-only or fully populated
IsWeatherSummary(v) ==
    /\ v.t = "object"
    /\ DOMAIN v.o \in {{}, {"note"}, SummaryFields}

\* C12: every 200 response to a request other than OPTIONS carries a
\* weatherData field that is a weather summary (empty, note-only or fully
\* populated); after a failed lookup it is empty or note-only.
C12_WeatherDataInEveryResponse ==
    \A i \in 1..Len(calls) :
        LET c == calls[i] IN
        (/\ c.pc = "responded"
         /\ c.event.httpMethod # "OPTIONS"
         /\ c.response.statusCode = 200) =>
            /\ IsWeatherSummary(Get(c.response.body, "weatherData"))
            /\ ~c.weatherResult.success =>
                  DOMAIN Get(c.response.body, "weatherData").o \in {{}, {"note"}}

\* C13: every invocation ends with a response carrying the CORS headers;
\* for a request other than OPTIONS the response is 200 with a body of
\* section, sectionName and weatherData exactly when the generation call
\* returned, and otherwise 500 with a body of error and details.
C13_ResponseShape ==
    [][ \A i \in 1..Len(calls) :
          (/\ calls[i].pc # "responded"
           /\ i <= Len(calls')
           /\ calls'[i].pc = "responded"
           /\ calls[i].event.httpMethod # "OPTIONS") =>
              LET r == calls'[i].response IN
              /\ r.headers = CorsHeaders
              /\ r.body.t = "object"
              /\ IF \E completion \in Completions :
                       completion.t = "content" /\ CompletionSettles(i, completion)
                 THEN /\ r.statusCode = 200
                      /\ DOMAIN r.body.o = {"section", "sectionName", "weatherData"}
                 ELSE /\ r.statusCode = 500
                      /\ DOMAIN r.body.o = {"error", "details"}
      ]_vars

\* the answer to a preflight request
PreflightResponse == Response(200, Str(<< >>))

\* a call as the given version leaves it at its first await, were its method POST
BegunAsPost(version, c) ==
    LET post == [c EXCEPT !.version = version, !.event.httpMethod = "POST"]
        begun == IF version = "B" THEN handler2Begin(post) ELSE handlerBegin(version, post)
    IN  [begun EXCEPT !.event = c.event]

\* C14: a request with method OPTIONS is answered 200 with the CORS headers
\* and an empty body, whatever its body, with no weather lookup and no
\* generation call; a request with any other method is processed as a POST
\* with the same body is, and never gets the preflight answer.
C14_Preflight ==
    [][ \A i \in 1..Len(calls) :
          (calls[i].pc = "sent" /\ i <= Len(calls') /\ calls'[i].pc # "sent") =>
              IF calls[i].event.httpMethod = "OPTIONS"
              THEN /\ calls'[i].pc = "responded"
                   /\ calls'[i].response = PreflightResponse
                   /\ calls'[i].response.headers = CorsHeaders
                   /\ calls'[i].weatherCalls = 0
                   /\ calls'[i].completionCalls = 0
              ELSE /\ calls'[i] = BegunAsPost(calls'[i].version, calls[i])
                   /\ calls'[i].response # PreflightResponse
      ]_vars

\* a preflight request with a body that is no JSON has been answered
C14_Witness ==
    \E i \in 1..Len(calls) :
        /\ calls[i].event.httpMethod = "OPTIONS"
        /\ calls[i].event.body = Unparsable
        /\ calls[i].pc = "responded"
        /\ calls[i].response.statusCode = 200

\* the operator starts, regenerates or accepts
OperatorRequests ==
    \/ \E entry \in FormEntries : Submit(entry)
    \/ ConfirmRegeneration
    \/ AcceptSection

\* C15: nothing is retried automatically: an invocation makes at most one
\* weather lookup and at most one generation call, a request is sent only
\* by an operator action (start, regenerate, accept) and one action sends at
\* most one, and the end of a request, failed or not, sends none.
C15_NoAutomaticRetry ==
    [][ /\ \A i \in 1..Len(calls') :
              calls'[i].weatherCalls <= 1 /\ calls'[i].completionCalls <= 1
        /\ Len(calls') <= Len(calls) + 1
        /\ Len(calls') > Len(calls) => OperatorRequests
        /\ (\E i \in 1..Len(calls) : FetchFails(i) \/ FetchSucceeds(i)) =>
              Len(calls') = Len(calls) - 1
      ]_vars

\* a regeneration whose lookup and whose generation call both failed
C15_Witness ==
    \E i \in 1..Len(calls) :
        /\ calls[i].kind = "regen"
        /\ calls[i].weatherCalls = 1
        /\ ~calls[i].weatherResult.success
        /\ calls[i].completionCalls = 1
        /\ calls[i].pc = "responded"
        /\ calls[i].response.statusCode = 500

----------------------------------------------------------------------------
(* getWeatherData called on its own (specification SpecWeather). *)

WeatherLocations == { Undefined, Str(<< >>), Str(<<"123 Main St">>) }

WeatherDates ==
    { Undefined, Str(<< >>), Str(<<"next week">>) } \cup {Str(<<d>>) : d \in DateStrings}

\* getWeatherData(location, dateString) of a version, up to axios.get
WeatherCall(version, location, dateString, at) ==
    LET w == IF version = "B" THEN getWeatherData2(location, dateString)
             ELSE getWeatherData(version, location, dateString, at)
    IN  [ kind       |-> "getWeatherData",
          version    |-> version,
          location   |-> location,
          dateString |-> dateString,
          now        |-> at,
          pc         |-> IF w.lookup THEN "lookup" ELSE "returned",
          lookups    |-> IF w.lookup THEN 1 ELSE 0,
          request    |-> w.request,
          response   |-> Undefined,
          result     |-> w.result ]

InitWeather == InitHandler

CallGetWeatherData(version, location, dateString) ==
    /\ calls = << >>
    /\ calls' = <<WeatherCall(version, location, dateString, now)>>
    /\ UNCHANGED <<currentSectionIndex, generatedSections, formContext, dom,
                   lastAlert, now, history>>

\* axios.get settles and getWeatherData returns
LookupSettles(resp) ==
    /\ calls # << >>
    /\ calls[1].pc = "lookup"
    /\ calls' = <<[calls[1] EXCEPT
                     !.pc = "returned",
                     !.response = resp,
                     !.result = WeatherResultOf(resp, IF calls[1].version = "B"
                                                      THEN <<"N/A">> ELSE << >>)]>>
    /\ UNCHANGED <<currentSectionIndex, generatedSections, formContext, dom,
                   lastAlert, now, history>>

\* the caller takes the result
WeatherReturned ==
    /\ calls # << >>
    /\ calls[1].pc = "returned"
    /\ calls' = << >>
    /\ UNCHANGED <<currentSectionIndex, generatedSections, formContext, dom,
                   lastAlert, now, history>>

NextWeather ==
    \/ \E version \in Versions, location \in WeatherLocations, dateString \in WeatherDates :
          CallGetWeatherData(version, location, dateString)
    \/ \E resp \in WeatherResponses : LookupSettles(resp)
    \/ WeatherReturned

SpecWeather == InitWeather /\ [][NextWeather]_vars

\* the calendar day (UTC) of an instant
DayOf(time) == time \div 10

\* C16: called with a location and a loss date after the current date,
\* getWeatherData returns success with a summary whose only field is the
\* note 'Weather data not found for a future date: YYYY-MM-DD' and makes no
\* lookup; called with a location and a loss date on or before the current
\* date it makes exactly one lookup.
C16_FutureDate ==
    \A i \in 1..Len(calls) :
        LET c == calls[i]
            d == NewDate(c.dateString)
        IN  (Truthy(c.location) /\ Truthy(c.dateString) /\ d.valid) =>
               IF DayOf(d.time) > DayOf(c.now)
               THEN /\ c.lookups = 0
                    /\ c.pc = "returned"
                    /\ c.result = WeatherOk(Obj([note |->
                          Str(<<"Weather data not found for a future date: ", IsoDate(d)>>)]))
               ELSE c.lookups = 1

\* C17: called without a location, or without a loss date, or with a loss
\* date that does not parse, getWeatherData makes no lookup and returns
\* success with the empty summary and no error.
C17_MissingInput ==
    \A i \in 1..Len(calls) :
        LET c == calls[i] IN
        (\/ ~Truthy(c.location)
         \/ ~Truthy(c.dateString)
         \/ ~NewDate(c.dateString).valid) =>
            /\ c.lookups = 0
            /\ c.pc = "returned"
            /\ c.result.success
            /\ c.result.data = EmptyObject
            /\ c.result.error = << >>

\* the lookups the claim counts as failed: a network error, a response
\* without the forecast or without a day, a day without hourly samples
LookupFailed(resp) ==
    \/ resp.t = "error"
    \/ resp.t = "response" /\ resp.shape # "full"
    \/ resp.t = "response" /\ resp.hour = << >>

\* C18: when the lookup fails (network error, response without forecast or
\* day, empty hour list) getWeatherData returns success=false with the
\* error's message and no data.
C18_LookupFailure ==
    \A i \in 1..Len(calls) :
        LET c == calls[i] IN
        (c.pc = "returned" /\ c.lookups = 1 /\ LookupFailed(c.response)) =>
            /\ ~c.result.success
            /\ c.result.error # << >>
            /\ c.response.t = "error" => c.result.error = c.response.message
            /\ c.result.data = Undefined

----------------------------------------------------------------------------
(* The prompt assembler: generateSectionPrompt of A, P0, P1 and the        *)
(* sectionPrompts of B.  A text is a sequence of tokens; the fixed text of *)
(* a template is cut so that "N/A" and every bracketed group are tokens of *)
(* their own; the typographic apostrophe of the source is written '.      *)

\* a || b
Or(a, b) == IF Truthy(a) THEN a ELSE b

\* `${value}`
RECURSIVE TemplateString(_)
TemplateString(v) ==
    CASE v.t = "undefined" -> <<"undefined">>
      [] v.t = "null" -> <<"null">>
      [] v.t = "string" -> v.s
      [] v.t = "number" -> <<ToString(v.n)>>
      [] v.t = "array" -> Join([k \in 1..Len(v.a) |-> TemplateString(v.a[k])], <<",">>)
      [] OTHER -> <<"[object Object]">>

\* the elements of an array as texts
StringsOf(arr) == [k \in 1..Len(arr.a) |-> TemplateString(arr.a[k])]

safeString(value, fallback) ==
    IF value.t = "string" /\ Trim(value.s) # << >> THEN value.s ELSE fallback

safeArrayJoin(arr, separator) ==
    IF arr.t = "array" /\ Len(arr.a) > 0 THEN Join(StringsOf(arr), separator) ELSE << >>

\* the order in which getWeatherData writes the fields of a summary
SummaryFieldOrder ==
    <<"note", "maxTemp", "minTemp", "avgTemp", "maxWindGust", "maxWindTime",
      "totalPrecip", "humidity", "conditions", "hailPossible", "thunderstorm">>

RECURSIVE JsonFields(_, _, _)
JsonFields(o, names, pretty) ==
    IF names = << >> THEN << >>
    ELSE (IF pretty THEN <<"\n  ">> ELSE << >>)
         \o <<"\"", Head(names), "\":">>
         \o (IF pretty THEN <<" ">> ELSE << >>)
         \o <<"\"">> \o o[Head(names)].s \o <<"\"">>
         \o (IF Len(names) > 1 THEN <<",">> ELSE IF pretty THEN <<"\n">> ELSE << >>)
         \o JsonFields(o, Tail(names), pretty)

\* `${JSON.stringify(weatherData)}` and `${JSON.stringify(weatherData, null, 2)}`
\* of a weather summary or of undefined
JsonStringify(v, pretty) ==
    IF v.t # "object" THEN TemplateString(v)
    ELSE <<"{">>
         \o JsonFields(v.o, SelectSeq(SummaryFieldOrder, LAMBDA k : k \in DOMAIN v.o), pretty)
         \o <<"}">>

\* the fields generateSectionPrompt extracts from the context
ExtractFields(context) ==
    [ investigationDate |-> safeString(Get(context, "investigationDate"), << >>),
      dateOfLoss        |-> safeString(Get(context, "dateOfLoss"), << >>),
      claimTypeString   |-> safeArrayJoin(Get(context, "claimType"), <<", ">>),
      propertyType      |-> safeString(Get(context, "propertyType"), << >>),
      propertyAge       |-> safeString(Get(context, "propertyAge"), << >>),
      constructionType  |-> safeString(Get(context, "constructionType"), << >>),
      currentUse        |-> safeString(Get(context, "currentUse"), << >>),
      squareFootage     |-> safeString(Get(context, "squareFootage"), << >>),
      address           |-> safeString(Get(context, "address"), << >>),
      clientName        |-> safeString(Get(context, "clientName"), << >>),
      engineerName      |-> safeString(Get(context, "engineerName"), << >>),
      engineerEmail     |-> safeString(Get(context, "engineerEmail"), << >>),
      engineerLicense   |-> safeString(Get(context, "engineerLicense"), << >>),
      engineerPhone     |-> safeString(Get(context, "engineerPhone"), << >>),
      propertyOwnerName |-> safeString(Get(context, "propertyOwnerName"), << >>),
      projectName       |-> safeString(Get(context, "projectName"), << >>),
      affectedAreas     |-> safeArrayJoin(Get(context, "affectedAreas"), <<", ">>) ]

\* weatherSummary of generateSectionPrompt
weatherSummaryOf(weatherData) ==
    IF Truthy(Get(weatherData, "note"))
    THEN <<"Weather Data Note: ">> \o TemplateString(Get(weatherData, "note"))
    ELSE IF weatherData.t = "object" /\ DOMAIN weatherData.o # {}
    THEN JsonStringify(weatherData, TRUE)
    ELSE << >>

\* roofTypesDetected of P1, context.roofType an array or without a length
roofTypesDetectedOf(context) ==
    LET roofType == Get(context, "roofType")
    IN  IF roofType.t = "array" /\ Len(roofType.a) > 0
        THEN <<"The user indicates these roof types: ">>
             \o Join(StringsOf(roofType), <<", ">>) \o <<".">>
        ELSE <<"The user indicates a TPO or other single-ply membrane if checked.">>

\* bigSystemInstruction of A (netlify/functions/generate-report.js 149-163)
bigSystemInstructionA(f, ws) ==
    <<"\nYou are an expert forensic engineer generating professional report sections. \nUse only the data from user inputs; do not invent details that contradict them.\n\nKey points:\n1. Avoid mentioning roofing types or multi-story details the user did not specify.\n2. Keep Date of Loss (">>
    \o f.dateOfLoss
    \o <<") separate from Investigation Date (">>
    \o f.investigationDate
    \o <<").\n3. If weather data is missing or the date is in the future, note that briefly rather than \"", "N/A", "\".\n4. Avoid placeholders like ", "[e.g., ...]", ", ", "[N/A]", ", ", "[Third Party]", ".\n5. The user's claim types: ">>
    \o f.claimTypeString
    \o <<".\n6. Property address: ">>
    \o f.address
    \o <<".\n7. The client name: ">>
    \o f.clientName
    \o <<" or property owner: ">>
    \o f.propertyOwnerName
    \o <<".\n8. Building type: ">>
    \o f.propertyType
    \o <<", age: ">>
    \o f.propertyAge
    \o <<", use: ">>
    \o f.currentUse
    \o <<", sq ft: ">>
    \o f.squareFootage
    \o <<".\n9. Weather Data Summary: ">>
    \o ws
    \o <<"\n">>

\* basePrompts of A (netlify/functions/generate-report.js 165-251)
basePromptsA(f, ws) ==
    [
      introduction |->
        <<"\n\"Introduction\" for a forensic engineering report.\nAddress: ">>
        \o f.address
        \o <<"\nDate of Loss: ">>
        \o f.dateOfLoss
        \o <<"\nInspection Date: ">>
        \o f.investigationDate
        \o <<"\nClaim Type(s): ">>
        \o f.claimTypeString
        \o <<"\nExplain the purpose of the inspection, referencing hail, wind, or other claimed causes.\n">>,
      authorization |->
        <<"\n\"Authorization and Scope of Investigation\"\nInclude who authorized it, the scope of work, tasks performed, references if any.\n">>,
      background |->
        <<"\n\"Background Information\"\nInclude:\n- Property Type: ">>
        \o f.propertyType
        \o <<"\n- Age: ">>
        \o f.propertyAge
        \o <<"\n- Construction Type: ">>
        \o f.constructionType
        \o <<"\n- Current Use: ">>
        \o f.currentUse
        \o <<"\n- Square Footage: ">>
        \o f.squareFootage
        \o <<"\n- Project Name: ">>
        \o f.projectName
        \o <<"\n- Property Owner: ">>
        \o f.propertyOwnerName
        \o <<"\n">>,
      observations |->
        <<"\n\"Site Observations and Analysis\"\nAffected areas: ">>
        \o f.affectedAreas
        \o <<"\nClaim type(s): ">>
        \o f.claimTypeString
        \o <<"\nInclude only user-indicated details (e.g., if TPO hail damage is indicated, mention it). \n">>,
      moisture |->
        <<"\n\"Survey\" (Moisture) section.\nDiscuss moisture presence or absence based on user data. \nNo contradictory statements.\n">>,
      meteorologist |->
        <<"\n\"Meteorologist Report\" section.\nUse weather data from:\n">>
        \o ws
        \o <<"\nIf not available, note that.\n">>,
      conclusions |->
        <<"\n\"Conclusions and Recommendations\"\nSummarize final opinions on the cause of loss and recommended next steps.\n">>,
      rebuttal |->
        <<"\n\"Rebuttal\" section.\nIf no conflicting or third-party reports are indicated, keep it minimal or note that none exist.\n">>,
      limitations |->
        <<"\n\"Limitations\" section.\nTypical disclaimers about scope, data reliance, and so forth.\n">>,
      tableofcontents |->
        <<"\n\"Table of Contents\" in markdown:\n1. Opening Letter\n2. Introduction\n3. Authorization and Scope of Investigation\n4. Background Information\n5. Site Observations and Analysis\n6. Survey\n7. Meteorologist Report\n8. Conclusions and Recommendations\n9. Rebuttal\n10. Limitations\n">>,
      openingletter |->
        <<"\n\"Opening Letter\" for the final report.\nInclude:\n- Date of Loss: ">>
        \o f.dateOfLoss
        \o <<"\n- Investigation Date: ">>
        \o f.investigationDate
        \o <<"\n- Claim Type(s): ">>
        \o f.claimTypeString
        \o <<"\n- Address: ">>
        \o f.address
        \o <<"\n- Greeting\n- Signature block with ">>
        \o f.engineerName
        \o <<", license ">>
        \o f.engineerLicense
        \o <<", email ">>
        \o f.engineerEmail
        \o <<", phone ">>
        \o f.engineerPhone
        \o <<"\n">> ]

\* bigSystemInstruction of P0 (unnamed/part_000 146-161)
bigSystemInstructionP0(f, ws) ==
    <<"\nYou are an expert forensic engineer generating professional report sections. \nIMPORTANT: Do NOT produce an extra heading at the top saying \"Introduction,\" \"Table of Contents,\" etc.\nWhy? Because our code adds a heading for the user automatically. \nSo please only produce the BODY TEXT for this section. Avoid repeating the section name as a heading.\n\nKey points:\n1. Avoid placeholders like ", "[e.g., ...]", ", ", "[N/A]", ", or repeated headings.\n2. Use the user's data only. \n3. If date is in the future or weather data is missing, you may note it briefly but do not say \"", "N/A", ".\"\n4. The user's claim type(s): ">>
    \o f.claimTypeString
    \o <<".\n5. Address: ">>
    \o f.address
    \o <<".\n6. Building details: ">>
    \o f.propertyType
    \o <<", age: ">>
    \o f.propertyAge
    \o <<", use: ">>
    \o f.currentUse
    \o <<", sq ft: ">>
    \o f.squareFootage
    \o <<".\n7. Weather data summary: ">>
    \o ws
    \o <<".\n8. Do not produce a heading that duplicates the section name. Just produce the content for the section.\n">>

\* basePrompts of P0 (unnamed/part_000 164-236)
basePromptsP0(f, ws) ==
    [
      introduction |->
        <<"\nYou are writing the body text for the \"Introduction.\" \nDo NOT include the word \"Introduction\" as a heading. \nFocus on the property at ">>
        \o f.address
        \o <<", the date of loss ">>
        \o f.dateOfLoss
        \o <<", the inspection date ">>
        \o f.investigationDate
        \o <<", \nand the reason for the inspection (claim type: ">>
        \o f.claimTypeString
        \o <<").\n">>,
      authorization |->
        <<"\nYou are writing the body text for the \"Authorization and Scope of Investigation\" section.\nDo NOT include the heading. \nSummarize who authorized the investigation, the scope, major tasks, references if any.\n">>,
      background |->
        <<"\nYou are writing the body text for \"Background Information.\"\nDo NOT include the heading. \nRelevant details:\n- Property Type: ">>
        \o f.propertyType
        \o <<", Age: ">>
        \o f.propertyAge
        \o <<", Construction: ">>
        \o f.constructionType
        \o <<"\n- Current Use: ">>
        \o f.currentUse
        \o <<", Square Footage: ">>
        \o f.squareFootage
        \o <<", etc.\n- Project Name: ">>
        \o f.projectName
        \o <<", Property Owner: ">>
        \o f.propertyOwnerName
        \o <<"\n">>,
      observations |->
        <<"\nYou are writing the body text for the \"Site Observations and Analysis.\"\nDo NOT include the heading. \nAffected areas: ">>
        \o f.affectedAreas
        \o <<", claim type(s): ">>
        \o f.claimTypeString
        \o <<".\nMention only user-indicated details.\n">>,
      moisture |->
        <<"\nYou are writing the body text for the \"Survey\" (Moisture) section.\nDo NOT include the heading. \nDiscuss moisture presence or absence. \n">>,
      meteorologist |->
        <<"\nYou are writing the body text for the \"Meteorologist Report.\"\nDo NOT include the heading. \nUse data from: ">>
        \o ws
        \o <<".\n">>,
      conclusions |->
        <<"\nYou are writing the body text for \"Conclusions and Recommendations.\"\nDo NOT include the heading. \nSummarize final opinions on the cause of loss, recommended steps, etc.\n">>,
      rebuttal |->
        <<"\nYou are writing the body text for the \"Rebuttal\" section.\nDo NOT include the heading. \nIf no conflicting reports are indicated, keep it minimal.\n">>,
      limitations |->
        <<"\nYou are writing the body text for the \"Limitations\" section.\nDo NOT include the heading. \nStandard disclaimers about scope, data reliance, etc.\n">>,
      tableofcontents |->
        <<"\nYou are writing the body text for the \"Table of Contents.\"\nDo NOT include a heading that says \"Table of Contents\" again. \nSimply list or outline the sections in a minimal way, or as instructed.\n">>,
      openingletter |->
        <<"\nYou are writing the body text for the \"Opening Letter.\"\nDo NOT include a heading. \nInclude a brief greeting, date of loss, inspection date, claim type(s), address, \nand sign-off with the engineer's name/license/email/phone.\n">> ]

\* bigSystemInstruction of P1 (unnamed/part_001 166-190)
bigSystemInstructionP1(f, ws, roofTypesDetected) ==
    <<"\nYou are an expert forensic engineer generating professional report sections. \nUse only the data from user inputs, do not invent or contradict them.\n\nKey instructions for consistency:\n1. Do NOT invent roofing types that the user did not specify. \n2. If user says it is a single-story building, do NOT mention an upper floor. \n3. If user specifically says TPO is punctured by hail, do not mention asphalt shingles. \n4. If user has not indicated any opposing third-party reports, keep the Rebuttal section minimal. \n5. If the user has indicated interior water intrusion, mention it. Otherwise, do not. \n6. We have two separate dates: \n   - Date of Loss (DOL): ">>
    \o f.dateOfLoss
    \o <<"\n   - Investigation (Inspection) Date: ">>
    \o f.investigationDate
    \o <<"\n   Do NOT conflate them. \n7. If weather data is not available, note that it was not retrieved or it was a future date. \n8. Do NOT use placeholders such as ", "[e.g., ...]", ", ", "[Third Party]", ", ", "[N/A]", ", etc. If data is missing, remain concise. \n9. The user's claim type is: ">>
    \o f.claimTypeString
    \o <<"\n10. The building's property type is: ">>
    \o f.propertyType
    \o <<", with an age of ">>
    \o f.propertyAge
    \o <<" years, and used for ">>
    \o f.currentUse
    \o <<". \n11. The building's address is ">>
    \o f.address
    \o <<". The client name is ">>
    \o f.clientName
    \o <<" or ">>
    \o f.propertyOwnerName
    \o <<".\n12. The roof type should only come from user data. \n">>
    \o roofTypesDetected
    \o <<"\n\nWeather Data Summary:\n">>
    \o ws
    \o <<"\n">>

\* basePrompts of P1 (unnamed/part_001 193-304)
basePromptsP1(f, ws) ==
    [
      introduction |->
        <<"\nYou are writing the \"Introduction\" for a forensic engineering report.\n\nConsider:\n- The property is located at \"">>
        \o f.address
        \o <<"\".\n- The reason for inspection is related to claims of: ">>
        \o f.claimTypeString
        \o <<".\n- The Date of Loss is ">>
        \o f.dateOfLoss
        \o <<", while the inspection date is ">>
        \o f.investigationDate
        \o <<".\n- Summarize the purpose of the inspection and the alleged damage (hail, wind, foundation, etc.).\n\nMaintain a concise, professional tone and do NOT mention placeholders or contradictory roofing details.\n">>,
      authorization |->
        <<"\nYou are writing the \"Authorization and Scope of Investigation\" section.\nInclude:\n1) Who authorized the investigation (the property owner, law firm, insurer, etc. if known from input).\n2) The scope of work performed (visual inspection, photos, etc.).\n3) Summarize major tasks performed.\n4) Mention any attached documents or references.\n\nRemain professional and concise. Do not invent contradictory details.\n">>,
      background |->
        <<"\nYou are writing the \"Background Information\" section.\nProperty details to include if relevant:\n- Property Type: ">>
        \o f.propertyType
        \o <<"\n- Age: ">>
        \o f.propertyAge
        \o <<" years\n- Construction Type: ">>
        \o f.constructionType
        \o <<"\n- Current Use: ">>
        \o f.currentUse
        \o <<"\n- Square Footage: ">>
        \o f.squareFootage
        \o <<"\n- Address: ">>
        \o f.address
        \o <<"\n- Project Name: ">>
        \o f.projectName
        \o <<"\n- Property Owner: ">>
        \o f.propertyOwnerName
        \o <<"\n\nDo not introduce contradictory materials or placeholders.\n">>,
      observations |->
        <<"\nYou are writing the \"Site Observations and Analysis\" section.\nUser indicates the following affected areas: ">>
        \o f.affectedAreas
        \o <<".\nUser claim type(s): ">>
        \o f.claimTypeString
        \o <<".\n\nIf user indicated TPO hail punctures, mention them. \nDo NOT mention asphalt shingles or multi-story interior if user didn't specify them. \nReference photos or tests only if the user mentions them. \n">>,
      moisture |->
        <<"\nYou are writing the \"Survey\" (Moisture) section.\nUse the user's data about water intrusion or the lack thereof.\nIf the user indicated water intrusion or moisture, mention it. Otherwise, do not fabricate it.\n">>,
      meteorologist |->
        <<"\nYou are writing the \"Meteorologist Report\" section.\nUse the data from:\n">>
        \o ws
        \o <<"\n\nIf date is in the future or data is not available, simply note that. \nFocus on how wind, hail, or precipitation might relate to the user's claim.\n">>,
      conclusions |->
        <<"\nYou are writing the \"Conclusions and Recommendations\" section.\nSummarize:\n- The cause of loss (based on user input).\n- The recommended next steps or repairs.\nDo NOT add placeholders like ", "[e.g., ...]", " or conflicting details.\n">>,
      rebuttal |->
        <<"\nYou are writing the \"Rebuttal\" section. \nOnly include a rebuttal if the user has indicated the existence of third-party or conflicting reports. \nOtherwise, keep it minimal or note that no conflicting reports were provided.\n">>,
      limitations |->
        <<"\nYou are writing the \"Limitations\" section.\nMention typical disclaimers about scope, data reliance, etc.\nNo placeholders, please.\n">>,
      tableofcontents |->
        <<"\nYou are generating a \"Table of Contents\" in markdown for the forensic engineering report. \nEnsure it includes the Opening Letter. The final order is:\n1. Opening Letter\n2. Introduction\n3. Authorization and Scope of Investigation\n4. Background Information\n5. Site Observations and Analysis\n6. Survey\n7. Meteorologist Report\n8. Conclusions and Recommendations\n9. Rebuttal\n10. Limitations\n">>,
      openingletter |->
        <<"\nYou are writing an \"Opening Letter\" for the final forensic engineering report.\nIt should appear before the Table of Contents.\n\nInclude:\n- The Date of Loss: ">>
        \o f.dateOfLoss
        \o <<"\n- The Investigation Date: ">>
        \o f.investigationDate
        \o <<"\n- The Claim Type(s): ">>
        \o f.claimTypeString
        \o <<"\n- The Property Address: ">>
        \o f.address
        \o <<"\n- A brief greeting and statement of the purpose of this report\n- Signature block with the engineer's name, license, email, and phone\n">> ]

\* fallbackPrompt of A (netlify/functions/generate-report.js 254-254)
fallbackPromptA(sectionName) ==
    <<"Write a professional section: ">>
    \o TemplateString(sectionName)
    \o <<", using only user inputs.">>

\* finalPrompt of A with custom instructions (netlify/functions/generate-report.js 260)
finalPromptWithA(basePrompt, safeCustom) ==
    basePrompt
    \o <<"\n\nAdditional instructions:\n">>
    \o safeCustom

\* fullPrompt of A (netlify/functions/generate-report.js 264-270)
fullPromptA(bigSystemInstruction, sectionName, finalPrompt) ==
    <<"\n">>
    \o bigSystemInstruction
    \o <<"\n\nNow produce the \"">>
    \o TemplateString(sectionName)
    \o <<"\" section.\n\n">>
    \o finalPrompt
    \o <<"\n">>

\* fallbackPrompt of P0 (unnamed/part_000 239-242)
fallbackPromptP0(sectionName) ==
    <<"\nWrite the BODY TEXT for section: ">>
    \o TemplateString(sectionName)
    \o <<", \nwithout repeating the section name as a heading at the top.\n">>

\* finalPrompt of P0 with custom instructions (unnamed/part_000 248)
finalPromptWithP0(basePrompt, safeCustom) ==
    basePrompt
    \o <<"\n\nAdditional instructions:\n">>
    \o safeCustom

\* fullPrompt of P0 (unnamed/part_000 252-258)
fullPromptP0(bigSystemInstruction, sectionName, finalPrompt) ==
    <<"\n">>
    \o bigSystemInstruction
    \o <<"\n\nNow produce the body text for the section named \"">>
    \o TemplateString(sectionName)
    \o <<"\". \n\n">>
    \o finalPrompt
    \o <<"\n">>

\* fallbackPrompt of P1 (unnamed/part_001 308-308)
fallbackPromptP1(sectionName) ==
    <<"Write a professional section titled \"">>
    \o TemplateString(sectionName)
    \o <<"\". Use only user inputs; do not add placeholders.">>

\* finalPrompt of P1 with custom instructions (unnamed/part_001 314)
finalPromptWithP1(basePrompt, safeCustom) ==
    basePrompt
    \o <<"\n\nAdditional Regeneration Instructions:\n">>
    \o safeCustom

\* fullPrompt of P1 (unnamed/part_001 318-323)
fullPromptP1(bigSystemInstruction, sectionName, finalPrompt) ==
    <<"\n">>
    \o bigSystemInstruction
    \o <<"\n\nUser has requested the \"">>
    \o TemplateString(sectionName)
    \o <<"\" section. \n">>
    \o finalPrompt
    \o <<"\n">>

\* sectionPrompts of B (netlify/functions/generate-report.js 394-537)
sectionPrompts(context, weatherData) ==
    [
      authorization |->
        <<"You are writing the \"Authorization and Scope of Investigation\" section for a forensic engineering report. Use this format but vary the wording:\n\nBackground: \n- Investigation Date: ">>
        \o TemplateString(Get(context, "investigationDate"))
        \o <<"\n- Property Address: ">>
        \o TemplateString(Get(context, "location"))
        \o <<"\n- Client: ">>
        \o TemplateString(Get(context, "clientName"))
        \o <<"\n- Date of Loss: ">>
        \o TemplateString(Get(context, "dateOfLoss"))
        \o <<"\n\nRequired Elements:\n1. State the site investigation details (date, location, requestor)\n2. Explain the purpose (evaluate ">>
        \o TemplateString(Get(context, "claimType"))
        \o <<" damage from the reported date of loss)\n3. Detail the scope of investigation (photo documentation, analysis, etc.)\n4. Mention the appendices: \n   - Inspection Photo Report (Appendix A)\n   - Roof Moisture Survey (Appendix B)\n   - Meteorologist Report (Appendix C)\n5. Reference any third-party reports reviewed\n\nWrite in a professional engineering tone. Avoid exact copying of the sample text but maintain a similar structure and level of detail.">>,
      background |->
        <<"You are writing the \"Background Information\" section for a forensic engineering report. Use this format but vary the wording:\n\nProperty Details:\n- Type: ">>
        \o TemplateString(Get(context, "propertyType"))
        \o <<"\n- Age: ">>
        \o TemplateString(Get(context, "propertyAge"))
        \o <<" years\n- Construction: ">>
        \o TemplateString(Get(context, "constructionType"))
        \o <<"\n- Current Use: ">>
        \o TemplateString(Get(context, "currentUse"))
        \o <<"\n- Square Footage: ">>
        \o TemplateString(Or(Get(context, "squareFootage"), Str(<<"To be determined">>)))
        \o <<"\n\nRequired Elements:\n1. Describe the building's construction type and materials\n2. Detail the roof system and exterior finish\n3. Include relevant architectural features\n4. Note the building's current use and year built\n5. Mention any relevant historical information\n\nWrite in a professional engineering tone. Avoid exact copying of the sample text but maintain a similar structure and level of detail.">>,
      conclusions |->
        <<"You are writing the \"Conclusion and Recommendations\" section for a forensic engineering report. Use this format but vary the wording:\n\nCase Details:\n- Damage Type: ">>
        \o TemplateString(Get(context, "claimType"))
        \o <<"\n- Weather Data: ">>
        \o JsonStringify(weatherData, FALSE)
        \o <<"\n- Affected Areas: ">>
        \o Join(StringsOf(Get(context, "affectedAreas")), <<", ">>)
        \o <<"\n- Investigation Findings: ">>
        \o TemplateString(Get(context, "engineerNotes"))
        \o <<"\n\nRequired Elements:\n1. List main conclusions as bullet points addressing:\n   - Storm event impact and date\n   - Weather data correlation\n   - Physical evidence of damage\n   - Supporting meteorological data\n   - Moisture survey findings\n2. Provide specific recommendations as bullet points for:\n   - Required repairs/replacements\n   - Scope of work needed\n   - Additional considerations\n\nWrite in a professional engineering tone. Avoid exact copying of the sample text but maintain a similar structure and level of detail.">>,
      observations |->
        <<"You are writing the \"Site Observations and Analysis\" section for a forensic engineering report. Use this format but vary the wording:\n\nInvestigation Areas:\n- Components: ">>
        \o Join(StringsOf(Get(context, "affectedAreas")), <<", ">>)
        \o <<"\n- Damage Type: ">>
        \o TemplateString(Get(context, "claimType"))
        \o <<"\n- Engineer Notes: ">>
        \o TemplateString(Get(context, "engineerNotes"))
        \o <<"\n\nRequired Elements:\n1. Initial methodology statement\n2. Organize observations by component area:\n   - Roof covering (if applicable)\n   - Exterior components (if applicable)\n   - Interior damage (if applicable)\n3. For each component:\n   - Detailed observations\n   - Analysis of damage patterns\n   - Correlation with reported cause\n4. Reference photo documentation (Appendix A)\n\nWrite in a professional engineering tone. Avoid exact copying of the sample text but maintain a similar structure and level of detail.">>,
      moisture |->
        <<"You are writing the \"Roof Moisture Survey\" section for a forensic engineering report. Use this format but vary the wording:\n\nSurvey Details:\n- Date: ">>
        \o TemplateString(Get(context, "investigationDate"))
        \o <<"\n- Equipment Used: Professional moisture detection tools\n- Findings: ">>
        \o TemplateString(Or(Get(context, "moistureFindings"), Str(<<"Detailed moisture analysis pending">>)))
        \o <<"\n\nRequired Elements:\n1. Describe survey methodology\n2. Detail equipment used\n3. Summarize findings\n4. Reference full report in Appendix B\n5. Note any significant moisture patterns or concerns\n\nWrite in a professional engineering tone. Avoid exact copying of the sample text but maintain a similar structure and level of detail.">>,
      meteorologist |->
        <<"You are writing the \"Meteorologist Report\" section for a forensic engineering report. Use this format but vary the wording:\n\nWeather Data:\n">>
        \o JsonStringify(weatherData, TRUE)
        \o <<"\nDate of Loss: ">>
        \o TemplateString(Get(context, "dateOfLoss"))
        \o <<"\n\nRequired Elements:\n1. Summarize weather data analysis\n2. Detail specific conditions:\n   - Wind speeds\n   - Hail occurrence\n   - Precipitation\n3. Correlate weather data with observed damage\n4. Reference full report in Appendix C\n\nWrite in a professional engineering tone. Avoid exact copying of the sample text but maintain a similar structure and level of detail.">>,
      rebuttal |->
        <<"You are writing the \"Rebuttal\" section for a forensic engineering report. Use this format but vary the wording:\n\nDispute Details:\n- Third Party Report Date: ">>
        \o TemplateString(Or(Get(context, "thirdPartyReportDate"), Str(<<"N/A">>)))
        \o <<"\n- Key Disputes: ">>
        \o TemplateString(Or(Get(context, "keyDisputes"), Str(<<"Standard analysis disputes">>)))
        \o <<"\n- Our Investigation Date: ">>
        \o TemplateString(Get(context, "investigationDate"))
        \o <<"\n\nRequired Elements:\n1. Reference the third-party report\n2. Address key points of disagreement\n3. Provide technical justification for our positions\n4. Reference supporting evidence\n5. Maintain professional tone\n\nWrite in a professional engineering tone. Avoid exact copying of the sample text but maintain a similar structure and level of detail.">>,
      limitations |->
        <<"You are writing the \"Limitations\" section for a forensic engineering report. Use this format but vary the wording:\n\nRequired Elements:\n1. Scope limitations\n2. Information available at time of report\n3. Scientific and engineering certainty statement\n4. Conditions present during examination\n5. Confidentiality statement\n6. Additional study disclaimer\n7. Report use restrictions\n\nWrite in a professional engineering tone. Avoid exact copying of the sample text but maintain a similar structure and level of detail.">> ]

\* basePrompts[normalizedSection] || fallbackPrompt; besides its own keys
\* the object literal answers to the lower-case names it inherits
basePromptOf(prompts, normalizedSection, fallbackPrompt) ==
    IF Len(normalizedSection) = 1 /\ normalizedSection[1] \in DOMAIN prompts
    THEN prompts[normalizedSection[1]]
    ELSE IF normalizedSection = <<"constructor">>
    THEN <<"function Object() { ", "[native code]", " }">>
    ELSE IF normalizedSection = <<"__proto__">>
    THEN <<"[object Object]">>
    ELSE fallbackPrompt

Thrown(message) == [t |-> "throw", message |-> message]

\* the user message of B: sectionPrompts[sectionName.toLowerCase()]
userPrompt(sectionName, context, weatherData) ==
    LET key == ToLowerCase(sectionName.s)
        prompts == sectionPrompts(context, weatherData)
    IN  IF Len(key) = 1 /\ key[1] \in DOMAIN prompts
        THEN Str(prompts[key[1]])
        ELSE Undefined

\* for A, P0, P1; the own keys of basePrompts
basePromptsOf(version, context, weatherData) ==
    LET f  == ExtractFields(context)
        ws == weatherSummaryOf(weatherData)
    IN  CASE version = "A"  -> basePromptsA(f, ws)
          [] version = "P0" -> basePromptsP0(f, ws)
          [] version = "P1" -> basePromptsP1(f, ws)

fallbackPromptOf(version, sectionName) ==
    CASE version = "A"  -> fallbackPromptA(sectionName)
      [] version = "P0" -> fallbackPromptP0(sectionName)
      [] version = "P1" -> fallbackPromptP1(sectionName)

generateSectionPrompt_ReadsClock(version, sectionName, context, weatherData, customInstructions) ==
    Str(<<"Generated at ", ToString(now), " after ", ToString(Len(calls)), " calls">>)

\* generateSectionPrompt of A, P0, P1; for B the user message of generateSection
generateSectionPrompt(version, sectionName, context, weatherData, customInstructions) ==
    IF PromptThrows(version, sectionName, context)
    THEN Thrown(PromptError(version, sectionName, context))
    ELSE IF version = "B" THEN userPrompt(sectionName, context, weatherData)
    ELSE
    LET f  == ExtractFields(context)
        ws == weatherSummaryOf(weatherData)
        bigSystemInstruction ==
            CASE version = "A"  -> bigSystemInstructionA(f, ws)
              [] version = "P0" -> bigSystemInstructionP0(f, ws)
              [] version = "P1" -> bigSystemInstructionP1(f, ws, roofTypesDetectedOf(context))
        basePrompt == basePromptOf(basePromptsOf(version, context, weatherData),
                                   NormalizeSection(sectionName),
                                   fallbackPromptOf(version, sectionName))
        safeCustom == safeString(customInstructions, << >>)
        finalPrompt ==
            IF safeCustom = << >> THEN basePrompt
            ELSE CASE version = "A"  -> finalPromptWithA(basePrompt, safeCustom)
                   [] version = "P0" -> finalPromptWithP0(basePrompt, safeCustom)
                   [] version = "P1" -> finalPromptWithP1(basePrompt, safeCustom)
    IN  Str(CASE version = "A"  -> fullPromptA(bigSystemInstruction, sectionName, finalPrompt)
              [] version = "P0" -> fullPromptP0(bigSystemInstruction, sectionName, finalPrompt)
              [] version = "P1" -> fullPromptP1(bigSystemInstruction, sectionName, finalPrompt))

----------------------------------------------------------------------------
(* The prompt assembler called on its own (specification SpecPrompt). *)

PromptKeys ==
    {"introduction", "authorization", "background", "observations", "moisture",
     "meteorologist", "conclusions", "rebuttal", "limitations", "tableofcontents",
     "openingletter"}

PromptSections ==
    { Undefined, Null, Num(5), Str(<< >>), Str(<<" ">>),
      Str(<<" ", "Introduction", "\n">>), Str(<<"appendix">>), Str(<<"constructor">>) }
    \cup {Str(<<k>>) : k \in PromptKeys}

\* fact sheets whose fields are blank or absent
BlankContexts ==
    { Undefined, Null, EmptyObject,
      Obj([affectedAreas |-> Arr(<< >>)]),
      Obj([dateOfLoss |-> Str(<< >>), address |-> Str(<<" ">>), claimType |-> Arr(<< >>),
           affectedAreas |-> Arr(<< >>), roofType |-> Arr(<< >>)]) }

PromptContexts ==
    BlankContexts \cup {x \in HandlerContexts : Get(x, "roofType") # Undefined}

PromptWeather ==
    { Undefined, EmptyObject,
      Obj([note |-> Str(FutureDateNote("A", "2099-01-01"))]),
      WeatherSummary([t |-> "response", shape |-> "full", condition |-> <<"Sunny">>,
                      hour |-> << >>], <<"N/A">>) }

PromptInstructions == HandlerInstructions \cup {Str(<<" ", "Shorter", "\n">>)}

PromptCall(version, sectionName, context, weatherData, customInstructions) ==
    [ kind               |-> "generateSectionPrompt",
      version            |-> version,
      sectionName        |-> sectionName,
      context            |-> context,
      weatherData        |-> weatherData,
      customInstructions |-> customInstructions,
      result             |-> generateSectionPrompt(version, sectionName, context,
                                                   weatherData, customInstructions) ]

InitPrompt == InitHandler /\ now = 25

AssemblePrompt(version, sectionName, context, weatherData, customInstructions) ==
    /\ calls = << >>
    /\ calls' = <<PromptCall(version, sectionName, context, weatherData, customInstructions)>>
    /\ UNCHANGED <<currentSectionIndex, generatedSections, formContext, dom,
                   lastAlert, now, history>>

\* time passes between two calls
ClockAdvances ==
    /\ Len(calls) = 1
    /\ \E t \in Clock : t > now /\ now' = t
    /\ UNCHANGED <<currentSectionIndex, generatedSections, formContext, dom,
                   lastAlert, calls, history>>

\* the assembler is called again with the arguments of the call before
AssembleAgain ==
    /\ Len(calls) = 1
    /\ LET c == calls[1]
       IN  calls' = Append(calls, PromptCall(c.version, c.sectionName, c.context,
                                             c.weatherData, c.customInstructions))
    /\ UNCHANGED <<currentSectionIndex, generatedSections, formContext, dom,
                   lastAlert, now, history>>

PromptReturned ==
    /\ calls # << >>
    /\ calls' = << >>
    /\ UNCHANGED <<currentSectionIndex, generatedSections, formContext, dom,
                   lastAlert, now, history>>

NextPrompt ==
    \/ \E version \in Versions, sectionName \in PromptSections, context \in PromptContexts,
          weatherData \in PromptWeather, customInstructions \in PromptInstructions :
          AssemblePrompt(version, sectionName, context, weatherData, customInstructions)
    \/ ClockAdvances
    \/ AssembleAgain
    \/ PromptReturned

SpecPrompt == InitPrompt /\ [][NextPrompt]_vars

\* the bracketed groups and the spellings of N/A among the tokens of a text
BracketedTokens ==
    {"[e.g., ...]", "[N/A]", "[Third Party]", "[native code]", "[object Object]"}

NotAvailableTokens == {"N/A", "[N/A]"}

HasToken(text, tokens) == \E k \in 1..Len(text) : text[k] \in tokens

\* C19: for a fact sheet whose fields are blank or absent, whatever the
\* section id and the weather summary, the prompt contains no bracketed
\* placeholder and no "N/A".
C19_NoPlaceholders ==
    \A i \in 1..Len(calls) :
        LET c == calls[i] IN
        (c.context \in BlankContexts /\ c.result.t = "string") =>
            /\ ~HasToken(c.result.s, BracketedTokens)
            /\ ~HasToken(c.result.s, NotAvailableTokens)

\* C20: the prompt assembler never throws and returns a string in which
\* no missing input appears as "undefined" or "null".
C20_NeverThrows ==
    \A i \in 1..Len(calls) :
        LET c == calls[i] IN
        /\ c.result.t = "string"
        /\ ~HasToken(c.result.s, {"undefined", "null"})

----------------------------------------------------------------------------
(* Custom instructions in the prompt. *)

\* the labels that introduce the operator's feedback in finalPrompt
InstructionLabels ==
    {"\n\nAdditional instructions:\n", "\n\nAdditional Regeneration Instructions:\n"}

\* the lines that follow bigSystemInstruction in fullPrompt
RequestLines ==
    {"\n\nNow produce the \"", "\n\nNow produce the body text for the section named \"",
     "\n\nUser has requested the \""}

\* the part of a prompt that precedes the request line
GlobalBlock(prompt) ==
    LET at == {k \in 1..Len(prompt) : prompt[k] \in RequestLines}
    IN  IF at = {} THEN prompt
        ELSE SubSeq(prompt, 1, (CHOOSE k \in at : \A j \in at : k <= j) - 1)

\* text occurs in prompt right after an additional-instructions label
FollowsLabel(prompt, text) ==
    \E k \in 1..Len(prompt) :
        /\ prompt[k] \in InstructionLabels
        /\ k + Len(text) <= Len(prompt)
        /\ SubSeq(prompt, k + 1, k + Len(text)) = text

NonBlank(v) == v.t = "string" /\ Trim(v.s) # << >>

\* the prompt of the same call made without custom instructions
WithoutInstructions(c) ==
    generateSectionPrompt(c.version, c.sectionName, c.context, c.weatherData, Undefined)

\* C21: with non-blank customInstructions the prompt contains the feedback
\* text verbatim after an additional-instructions label and its global
\* instruction block is that of the prompt built without them; with blank or
\* whitespace-only customInstructions the prompt is the one built without them.
C21_CustomInstructions ==
    \A i \in 1..Len(calls) :
        LET c == calls[i] IN
        (c.kind = "generateSectionPrompt" /\ c.result.t = "string") =>
            IF NonBlank(c.customInstructions)
            THEN /\ FollowsLabel(c.result.s, c.customInstructions.s)
                 /\ WithoutInstructions(c).t = "string"
                 /\ GlobalBlock(c.result.s) = GlobalBlock(WithoutInstructions(c).s)
            ELSE c.result = WithoutInstructions(c)

----------------------------------------------------------------------------
(* Determinism of the prompt assembler. *)

SameArguments(c, d) ==
    /\ c.version = d.version
    /\ c.sectionName = d.sectionName
    /\ c.context = d.context
    /\ c.weatherData = d.weatherData
    /\ c.customInstructions = d.customInstructions

----------------------------------------------------------------------------
(* The future-date note, from the request to the prompt. *)

\* sub occurs in text
Contains(text, sub) ==
    \E k \in 0..(Len(text) - Len(sub)) : SubSeq(text, k + 1, k + Len(sub)) = sub

\* the prompt the handler built for its generation call
PromptOf(c) ==
    generateSectionPrompt(c.version, c.prompt.sectionName, c.prompt.context,
                          c.prompt.weatherData, c.prompt.customInstructions)

FutureRequest(c) ==
    /\ c.version # "none"
    /\ SectionOf(c) = Str(<<"meteorologist">>)
    /\ Get(ContextOf(c), "dateOfLoss") = Str(<<"2099-01-01">>)
    /\ InstantOf("2099-01-01") > c.now
    /\ Truthy(Get(ContextOf(c), "address"))

FutureNote == <<"Weather data not found for a future date: ", "2099-01-01">>

\* C23: a request for section 'meteorologist' with loss date 2099-01-01 and
\* an address gets the note-only weather summary 'Weather data not found for
\* a future date: 2099-01-01' without a lookup, and the weather narrative of
\* the prompt built for it is that note.
C23_FutureDateNarrative ==
    \A i \in 1..Len(calls) :
        LET c == calls[i] IN
        (FutureRequest(c) /\ c.pc # "sent") =>
            /\ c.weatherCalls = 0
            /\ c.weatherResult.data = Obj([note |-> Str(FutureNote)])
            /\ weatherSummaryOf(c.prompt.weatherData)
                   \in {FutureNote, <<"Weather Data Note: ">> \o FutureNote}
            /\ PromptOf(c).t = "string"
            /\ Contains(PromptOf(c).s, FutureNote)

----------------------------------------------------------------------------
(* The catalog that drives the workflow. *)

\* the ten sections of the table of contents (basePrompts.tableofcontents)
TableOfContents ==
    << <<"openingletter">>, <<"introduction">>, <<"authorization">>, <<"background">>,
       <<"observations">>, <<"moisture">>, <<"meteorologist">>, <<"conclusions">>,
       <<"rebuttal">>, <<"limitations">> >>

\* C24: the workflow is driven by the ten sections opening letter,
\* introduction, authorization, background, observations, moisture,
\* meteorologist, conclusions, rebuttal, limitations, in this order: the
\* first request is for the opening letter, the sections are requested in
\* that order, and Complete is reached only after all ten were accepted.
C24_CatalogOfTen ==
    /\ \A k \in 1..Len(history.requested) :
          /\ k <= Len(TableOfContents)
          /\ ToLowerCase(history.requested[k]) = TableOfContents[k]
    /\ Complete =>
          {ToLowerCase(id) : id \in history.accepted}
              = {TableOfContents[k] : k \in 1..Len(TableOfContents)}

----------------------------------------------------------------------------
(* The section-specific instruction and its fallback. *)

\* the instruction selected for a section id: basePrompt of generateSectionPrompt,
\* the user message of B
InstructionOf(c) ==
    IF c.version = "B"
    THEN userPrompt(c.sectionName, c.context, c.weatherData)
    ELSE Str(basePromptOf(basePromptsOf(c.version, c.context, c.weatherData),
                          NormalizeSection(c.sectionName),
                          fallbackPromptOf(c.version, c.sectionName)))

\* the own keys of the catalog of section prompts
CatalogKeys(c) ==
    IF c.version = "B"
    THEN DOMAIN sectionPrompts(c.context, c.weatherData)
    ELSE DOMAIN basePromptsOf(c.version, c.context, c.weatherData)

IsCatalogKey(c, normalizedSection) ==
    Len(normalizedSection) = 1 /\ normalizedSection[1] \in CatalogKeys(c)

\* the wordings of the facts-only, no-placeholders rule in a fallback
FactsOnlyRule == {"\". Use only user inputs; do not add placeholders."}

\* C25: a section id whose trimmed, lower-cased form is no own key of the
\* catalog ('constructor', 'appendix', the empty id) gets the generic
\* fallback, which names the id and repeats the facts-only, no-placeholders
\* rule; an id that differs from a key by case or surrounding whitespace
\* gets that key's instruction.
C25_FallbackInstruction ==
    \A i \in 1..Len(calls) :
        LET c == calls[i]
            normalizedSection == NormalizeSection(c.sectionName)
        IN
        (/\ c.kind = "generateSectionPrompt"
         /\ c.result.t # "throw"
         /\ c.sectionName.t = "string") =>
            IF IsCatalogKey(c, normalizedSection)
            THEN InstructionOf(c)
                     = InstructionOf([c EXCEPT !.sectionName = Str(normalizedSection)])
            ELSE /\ InstructionOf(c).t = "string"
                 /\ Contains(InstructionOf(c).s, c.sectionName.s)
                 /\ HasToken(InstructionOf(c).s, FactsOnlyRule)

----------------------------------------------------------------------------
(* The maximum gust of a day. *)

\* the lookup returned a summary built from a non-empty list of hourly samples
SummaryOfSamples(c) ==
    /\ c.kind = "getWeatherData"
    /\ c.pc = "returned"
    /\ c.lookups = 1
    /\ c.result.success
    /\ c.response.t = "response"
    /\ c.response.shape = "full"
    /\ c.response.hour # << >>

\* C26: on a successful lookup with a non-empty list of hourly samples the
\* reported maximum gust is the greatest gust of the samples and the
\* reported gust time is the time of the first sample, in list order, that
\* has this gust.
C26_MaxGust ==
    \A i \in 1..Len(calls) :
        LET c == calls[i] IN
        SummaryOfSamples(c) =>
            LET hours == c.response.hour
            IN  \E k \in 1..Len(hours) :
                    /\ \A j \in 1..Len(hours) : hours[j].gust_mph <= hours[k].gust_mph
                    /\ \A j \in 1..(k - 1) : hours[j].gust_mph < hours[k].gust_mph
                    /\ Get(c.result.data, "maxWindGust")
                           = Str(<<ToString(hours[k].gust_mph), " mph">>)
                    /\ Get(c.result.data, "maxWindTime") = Str(hours[k].time)

\* a summary of four samples whose greatest gust occurs twice, not first
C26_Witness ==
    \E i \in 1..Len(calls) :
        /\ SummaryOfSamples(calls[i])
        /\ Len(calls[i].response.hour) = 4
        /\ Get(calls[i].result.data, "maxWindTime") = Str(<<"01:00">>)

----------------------------------------------------------------------------
(* Regeneration replaces the content of the active section only. *)

\* the text a responded call carries
ContentOf(c) == Get(c.response.body, "section").s

\* C27: a successful regeneration of the active section i stores the new
\* text as the whole content of section i and changes nothing else: the
\* cursor stays at i and the content stored for every other section is
\* unchanged.
C27_RegenerationReplacesOnly ==
    [][ \A i \in 1..Len(calls) :
          (calls[i].kind = "regen" /\ FetchSucceeds(i)) =>
              LET id == SectionAt(currentSectionIndex).id IN
              /\ calls[i].sectionId = id
              /\ currentSectionIndex' = currentSectionIndex
              /\ DOMAIN generatedSections' = DOMAIN generatedSections \cup {id}
              /\ generatedSections'[id] = ContentOf(calls[i])
              /\ \A other \in DOMAIN generatedSections \ {id} :
                    generatedSections'[other] = generatedSections[other]
              /\ formContext' = formContext
      ]_vars

\* the regeneration of "background" has been answered with a text other
\* than the stored one, while "authorization" is stored too
C27_Witness ==
    \E i \in 1..Len(calls) :
        /\ calls[i].kind = "regen"
        /\ ENABLED FetchSucceeds(i)
        /\ currentSectionIndex = 1
        /\ DOMAIN generatedSections = {<<"authorization">>, <<"background">>}
        /\ generatedSections[<<"authorization">>] # << >>
        /\ generatedSections[<<"background">>] # ContentOf(calls[i])

----------------------------------------------------------------------------
(* What the operator reviews is the section at the cursor. *)

\* a section is shown for review and no request is in flight
Reviewing == calls = << >> /\ ~dom.sectionReviewHidden /\ ~Complete

----------------------------------------------------------------------------
(* The workflow with requests that succeed and an operator who keeps       *)
(* accepting (specification SpecLive).                                     *)

\* the generation service answers with a text
LiveCompletions == {c \in PageCompletions : c.t = "content"}

\* the platform runs the handler and the services it awaits settle
HandlerStep ==
    \/ \E i \in 1..Len(calls), version \in Versions : HandlerBegin(i, version)
    \/ \E i \in 1..Len(calls), resp \in PageWeatherResponses : WeatherSettles(i, resp)
    \/ \E i \in 1..Len(calls), completion \in LiveCompletions :
          CompletionSettles(i, completion)

\* the page receives the response
FetchStep == \E i \in 1..Len(calls) : FetchSucceeds(i)

\* the form entry and the feedback of this operator
LiveEntries == {entry \in FormEntries : entry.affectedAreas # << >>}

LiveInstructions == {text \in TypedInstructions : Trim(text) # << >>}

NextLive ==
    \/ \E entry \in LiveEntries : Submit(entry)
    \/ OpenRegenerationDialog
    \/ \E text \in LiveInstructions : TypeInstructions(text)
    \/ CancelRegeneration
    \/ EscapeKey
    \/ ConfirmRegeneration
    \/ AcceptSection
    \/ DownloadReport
    \/ HandlerStep
    \/ FetchStep

\* the operator leaves the regeneration dialog, one way or another
DialogCloses == CancelRegeneration \/ EscapeKey \/ ConfirmRegeneration

\* every request is served and answered; the operator leaves no dialog open
\* for ever and does not leave the accept button unused for ever
SpecLive ==
    /\ Init
    /\ [][NextLive]_vars
    /\ WF_vars(HandlerStep)
    /\ WF_vars(FetchStep)
    /\ WF_vars(DialogCloses)
    /\ SF_vars(AcceptSection)

Started == dom.claimFormParentHidden

\* C29: if every generation request succeeds and the operator keeps
\* accepting, the workflow reaches Complete after start; at Complete every
\* one of the N catalog sections has been accepted, exactly N first requests
\* have been sent, and the last accept has sent no request.
C29_ReachesComplete ==
    /\ Started ~> Complete
    /\ [](Complete => /\ history.accepted = SectionIds
                      /\ Len(history.requested) = NumSections
                      /\ history.generated = SectionIds
                      /\ calls = << >>)

\* the compiled report is shown after the N-th accept
C29_Witness ==
    /\ Complete
    /\ currentSectionIndex = NumSections
    /\ Cardinality(history.accepted) = NumSections
    /\ lastAlert = NoAlert

----------------------------------------------------------------------------
(* A request of the page, from the form to the lookup and the prompt. *)

\* a request of the page for a weather-relevant section, with a location
\* and a loss date that is not after today, past the handler's weather step
FormRequestServed(c) ==
    /\ c.kind # "direct"
    /\ c.pc \in {"completion", "responded"}
    /\ NeedsWeather(NormalizeSection(SectionOf(c)))
    /\ Truthy(Get(ContextOf(c), "location"))
    /\ NewDate(Get(ContextOf(c), "dateOfLoss")).valid
    /\ NewDate(Get(ContextOf(c), "dateOfLoss")).time <= c.now

\* C30: for a fact sheet built by the form handler with a location and a
\* loss date on or before today, a request for a weather-relevant section
\* makes the handler issue exactly one weather lookup, for that location and
\* date, and the claim type of the form appears in the prompt it builds.
C30_FormRequest ==
    \A i \in 1..Len(calls) :
        LET c == calls[i] IN
        FormRequestServed(c) =>
            /\ c.weatherCalls = 1
            /\ Get(c.weatherRequest, "q") = Get(ContextOf(c), "location")
            /\ Get(c.weatherRequest, "dt")
                   = Str(<<IsoDate(NewDate(Get(ContextOf(c), "dateOfLoss")))>>)
            /\ c.prompt # NoPrompt =>
                  /\ PromptOf(c).t = "string"
                  /\ Contains(PromptOf(c).s, Get(ContextOf(c), "claimType").s)

====
